---- MODULE Spec2Model ----
(***************************************************************************)
(* Model of the Zoom to Google Drive connector                             *)
(* (src/src/template_zoom-drive-connector_github.js).                      *)
(*                                                                         *)
(* Text is modelled as a sequence of symbols (short atomic pieces of       *)
(* text); substring, prefix and split are computed on these sequences.     *)
(* A cell of the tracking sheet is either a string or a Date value.        *)
(***************************************************************************)
EXTENDS Integers, Sequences, FiniteSets, TLC

\* ------------------------------------------------------------------ bounds
MaxRuns == 2
MaxFaults == 1

\* ------------------------------------------------------------------ text
\* Body applied to the value of e, which is computed once
Once(e, Body(_)) == CHOOSE r \in {Body(v) : v \in {e}} : TRUE

\* sub occurs in s at position i
IsPrefixAt(s, sub, i) ==
  /\ i + Len(sub) - 1 <= Len(s)
  /\ \A k \in 1..Len(sub) : s[i + k - 1] = sub[k]

\* String.prototype.includes
Includes(s, sub) == \E i \in 1..(Len(s) + 1) : IsPrefixAt(s, sub, i)

\* String.prototype.startsWith
StartsWith(s, sub) == IsPrefixAt(s, sub, 1)

\* index of the first occurrence of symbol sep in s, 0 when there is none
IndexOf(s, sep) ==
  IF \E i \in 1..Len(s) : s[i] = sep
  THEN CHOOSE i \in 1..Len(s) : s[i] = sep /\ \A j \in 1..(i - 1) : s[j] # sep
  ELSE 0

\* String.prototype.split on a one-symbol separator
RECURSIVE Split(_, _)
Split(s, sep) ==
  IF IndexOf(s, sep) = 0 THEN <<s>>
  ELSE <<SubSeq(s, 1, IndexOf(s, sep) - 1)>>
         \o Split(SubSeq(s, IndexOf(s, sep) + 1, Len(s)), sep)

\* String.prototype.toLowerCase on one symbol
LowerSym(c) ==
  CASE c = "Operations" -> "operations"
    [] c = "COUNCIL" -> "council"
    [] c = "Council" -> "council"
    [] c = "Sync" -> "sync"
    [] c = "MP4" -> "mp4"
    [] c = "M4A" -> "m4a"
    [] c = "VTT" -> "vtt"
    [] c = "JSON" -> "json"
    [] c = "Json" -> "json"
    [] c = "TXT" -> "txt"
    [] c = "TRANSCRIPT" -> "transcript"
    [] c = "TIMELINE" -> "timeline"
    [] c = "CHAT" -> "chat"
    [] c = "CC" -> "cc"
    [] OTHER -> c

toLowerCase(s) == [i \in 1..Len(s) |-> LowerSym(s[i])]

\* ------------------------------------------------------------------ dates
Pad2(n) == IF n < 10 THEN "0" \o ToString(n) ELSE ToString(n)
Pad4(n) == IF n < 10 THEN "000" \o ToString(n)
           ELSE IF n < 100 THEN "00" \o ToString(n)
           ELSE IF n < 1000 THEN "0" \o ToString(n) ELSE ToString(n)

DateNumbers == (1..31) \cup (2023..2025)

IsNumeric(sym) == \E n \in DateNumbers : sym \in {ToString(n), Pad2(n), Pad4(n)}

\* parseInt / numeric coercion of a one-symbol decimal string
parseInt(sym) == CHOOSE n \in DateNumbers : sym \in {ToString(n), Pad2(n), Pad4(n)}

NoDate == [y |-> 0, m |-> 0, d |-> 0]

\* Utilities.formatDate(date, tz, "yyyy-MM-dd")
FormatYMD(dt) == <<Pad4(dt.y), "-", Pad2(dt.m), "-", Pad2(dt.d)>>

\* Utilities.formatDate(date, tz, "MM-dd-yyyy")
FormatMDY(dt) == <<Pad2(dt.m), "-", Pad2(dt.d), "-", Pad4(dt.y)>>

\* ------------------------------------------------------------------ cells
StrCell(s) == [type |-> "string", str |-> s, date |-> NoDate]
DateCell(dt) == [type |-> "Date", str |-> <<>>, date |-> dt]

\* JavaScript === between a cell value read from the sheet and a string
StrictEqStr(cell, s) == cell.type = "string" /\ cell.str = s

\* text of the shape MM-dd-yyyy that a spreadsheet recognises as a date
LooksLikeMDY(s) ==
  /\ Len(s) = 5
  /\ s[2] = "-" /\ s[4] = "-"
  /\ IsNumeric(s[1]) /\ IsNumeric(s[3]) /\ IsNumeric(s[5])
  /\ parseInt(s[1]) \in 1..12 /\ parseInt(s[3]) \in 1..31

\* Range.setValues: what a written string is stored as. A spreadsheet whose
\* locale reads MM-dd-yyyy stores a Date value, any other keeps the text.
SheetStore(parses, s) ==
  Once(s, LAMBDA written :
    IF parses /\ LooksLikeMDY(written)
    THEN DateCell([y |-> parseInt(written[5]), m |-> parseInt(written[1]),
                   d |-> parseInt(written[3])])
    ELSE StrCell(written))

\* ------------------------------------------------------------------ CONFIG
TOPIC_PREFIX_TO_REMOVE == <<"Org">>
DEFAULT_FOLDER_ID == "F0"
\* the keyword -> folder id pairs in the order the object literal lists them
FOLDER_MAPPING ==
  << [keyword |-> <<"operations">>, id |-> "F1"],
     [keyword |-> <<"council">>, id |-> "F2"] >>

\* ------------------------------------------------------------------ routing
IndexNumbers == 0..99

\* a property key that is a canonical array index ("7", "42")
IsArrayIndex(k) == Len(k) = 1 /\ \E n \in IndexNumbers : k[1] = ToString(n)

IndexValue(k) == CHOOSE n \in IndexNumbers : k[1] = ToString(n)

\* the keys of idx (positions of array-index keys in mapping) by ascending value
RECURSIVE AscendingIndexKeys(_, _)
AscendingIndexKeys(mapping, idx) ==
  IF idx = {} THEN <<>>
  ELSE LET least == CHOOSE i \in idx :
                      \A j \in idx : IndexValue(mapping[i].keyword)
                                       <= IndexValue(mapping[j].keyword)
       IN <<mapping[least].keyword>>
            \o AscendingIndexKeys(mapping, idx \ {least})

\* the keys that are no array index, in insertion order
RECURSIVE StringKeys(_)
StringKeys(mapping) ==
  IF mapping = <<>> THEN <<>>
  ELSE (IF IsArrayIndex(Head(mapping).keyword) THEN <<>>
        ELSE <<Head(mapping).keyword>>) \o StringKeys(Tail(mapping))

\* Object.keys(CONFIG.FOLDER_MAPPING): array-index keys first, in ascending
\* numeric order, then the other keys in insertion order
ObjectKeys(mapping) ==
  AscendingIndexKeys(mapping,
      {i \in 1..Len(mapping) : IsArrayIndex(mapping[i].keyword)})
    \o StringKeys(mapping)

\* CONFIG.FOLDER_MAPPING[keyword]
FolderOf(mapping, keyword) ==
  mapping[CHOOSE i \in 1..Len(mapping) : mapping[i].keyword = keyword].id

\* the test of one keyword against the lowercased topic
KeywordMatches(topicLower, keyword) == Includes(topicLower, toLowerCase(keyword))

getDestinationFolderId(mapping, default, meetingTopic) ==
  Once(ObjectKeys(mapping), LAMBDA keywords :
    LET topicLower == toLowerCase(meetingTopic)
        hits == {i \in 1..Len(keywords) : KeywordMatches(topicLower, keywords[i])}
    IN IF hits = {} THEN default
       ELSE FolderOf(mapping, keywords[CHOOSE i \in hits : \A j \in hits : i <= j]))

\* ------------------------------------------------------------------ items
\* meetingTopic.replace(/^PREFIX(\s\|\s|\s)/, "") behind the startsWith test
StripPrefix(topic) ==
  LET n == Len(TOPIC_PREFIX_TO_REMOVE) IN
  IF TOPIC_PREFIX_TO_REMOVE # <<>> /\ StartsWith(topic, TOPIC_PREFIX_TO_REMOVE)
  THEN IF IsPrefixAt(topic, <<" ", "|", " ">>, n + 1)
       THEN SubSeq(topic, n + 4, Len(topic))
       ELSE IF n + 1 <= Len(topic) /\ topic[n + 1] = " "
            THEN SubSeq(topic, n + 2, Len(topic))
            ELSE topic
  ELSE topic

\* recording.topic || "Unnamed Meeting", prefix removed
MeetingTopic(rawTopic) ==
  StripPrefix(IF rawTopic = <<>> THEN <<"Unnamed Meeting">> ELSE rawTopic)

\* start_time ? start_time.split("T")[0] : "Unknown Date"
MeetingDate(time) ==
  IF time = <<>> THEN <<"Unknown Date">> ELSE Split(time, "T")[1]

\* a folder name that removes the prefix from the topic once more
FolderName_Restripped(meetingDate, meetingTopic) ==
  meetingDate \o <<"_">> \o StripPrefix(meetingTopic)

\* `${meetingDate}_${meetingTopic}`
FolderName(meetingDate, meetingTopic) == meetingDate \o <<"_">> \o meetingTopic

FileRole(file) ==
  LET fileType == LowerSym(file.file_type)
      fileExtension == LowerSym(file.file_extension)
  IN IF fileExtension = "mp4" THEN "video"
     ELSE IF fileExtension = "m4a" THEN "audio"
     ELSE IF fileType = "transcript" THEN "transcript"
     ELSE fileType

FileName(meetingDate, meetingTopic, file) ==
  meetingDate \o <<"_">> \o meetingTopic
    \o <<"_", FileRole(file), ".", LowerSym(file.file_extension)>>

\* String.prototype.replace(sub, rep) with string arguments: first occurrence
ReplaceFirst(s, sub, rep) ==
  Once(s, LAMBDA text :
    IF Includes(text, sub)
    THEN LET at == CHOOSE i \in 1..Len(text) :
                     /\ IsPrefixAt(text, sub, i)
                     /\ \A j \in 1..(i - 1) : ~IsPrefixAt(text, sub, j)
         IN SubSeq(text, 1, at - 1) \o rep \o SubSeq(text, at + Len(sub), Len(text))
    ELSE text)

\* fileName.replace(".vtt", ".txt").replace(".VTT", ".txt")
TextFileName(fileName) ==
  ReplaceFirst(ReplaceFirst(fileName, <<".", "vtt">>, <<".", "txt">>),
               <<".", "VTT">>, <<".", "txt">>)

\* the filesTransferred entry of one transferred file: `${name} (${id})`
TransferEntry(name) == name \o <<" (", "id", ")">>

\* Array.prototype.join
RECURSIVE Join(_, _)
Join(parts, sep) ==
  IF parts = <<>> THEN <<>>
  ELSE IF Len(parts) = 1 THEN parts[1]
  ELSE parts[1] \o sep \o Join(Tail(parts), sep)

AI_SUMMARY == <<"AI", " ", "Summary">>

\* ------------------------------------------------------------------ ledger
\* data rows of the tracking sheet (the header row is not part of `data`)
isRecordingProcessed(meetingTopic, meetingDate, data) ==
  \E i \in 1..Len(data) :
    /\ StrictEqStr(data[i].topic, meetingTopic)
    /\ StrictEqStr(data[i].date, meetingDate)

\* if (date instanceof Date) date = Utilities.formatDate(date, tz, "yyyy-MM-dd")
NormalizedDate(cell) ==
  IF cell.type = "Date" THEN StrCell(FormatYMD(cell.date)) ELSE cell

isSummaryProcessed(meetingTopic, meetingDate, data) ==
  \E i \in 1..Len(data) :
    /\ StrictEqStr(data[i].topic, meetingTopic)
    /\ StrictEqStr(NormalizedDate(data[i].date), meetingDate)
    /\ StrictEqStr(data[i].files, AI_SUMMARY)

\* the file-type labels logTransferToSheet derives from the filesTransferred text
FileTypes(filesTransferred) ==
  (IF Includes(filesTransferred, <<".", "mp4">>) THEN << <<"Video">> >> ELSE <<>>)
  \o (IF Includes(filesTransferred, <<".", "m4a">>) THEN << <<"Audio">> >> ELSE <<>>)
  \o (IF \/ Includes(filesTransferred, <<"chat", ".", "txt">>)
         \/ Includes(filesTransferred, <<"Chat", ".", "txt">>)
      THEN << <<"Chat">> >> ELSE <<>>)
  \o (IF Includes(filesTransferred, <<"transcript", ".", "txt">>)
      THEN << <<"Transcript">> >> ELSE <<>>)
  \o (IF Includes(filesTransferred, AI_SUMMARY) THEN <<AI_SUMMARY>> ELSE <<>>)

FileTypesList(filesTransferred) == Join(FileTypes(filesTransferred), <<", ">>)

\* the "Meeting Date" value logTransferToSheet writes
FormattedMeetingDate(meetingDate) ==
  IF meetingDate # <<>> /\ meetingDate # <<"Unknown Date">>
  THEN Once(Split(meetingDate, "-"), LAMBDA dateParts :
         IF Len(dateParts) = 3
         THEN Once([y |-> parseInt(dateParts[1][1]),
                    m |-> parseInt(dateParts[2][1]),
                    d |-> parseInt(dateParts[3][1])], FormatMDY)
         ELSE meetingDate)
  ELSE meetingDate

\* the row logTransferToSheet writes, as the sheet stores it. kind, uuid, run
\* and key record which processing wrote the row; no lookup reads them.
TrackingRow(parses, meetingTopic, meetingDate, filesTransferred, folderName, hostEmail, kind, uuid, runNo) ==
  [topic |-> SheetStore(parses, meetingTopic),
   date |-> SheetStore(parses, FormattedMeetingDate(meetingDate)),
   files |-> SheetStore(parses, FileTypesList(filesTransferred)),
   folder |-> folderName,
   host |-> hostEmail,
   kind |-> kind, uuid |-> uuid, run |-> runNo,
   key |-> <<meetingTopic, meetingDate>>]

\* a logTransferToSheet that writes into the last row instead of below it
logTransferToSheet_OverLastRow(data, row) ==
  IF data = <<>> THEN <<row>> ELSE [data EXCEPT ![Len(data)] = row]

\* sheet.getRange(lastRow + 1, ...).setValues([rowData])
logTransferToSheet(data, row) == Append(data, row)

\* ------------------------------------------------------------------ source data
MEETING_TIME == <<"2024", "-", "03", "-", "15", "T", "10:00:00Z">>

\* what the recordings endpoint can list, in listing order; host is the account
\* member the recording belongs to
RecordingList ==
  << [uuid |-> "m1", host |-> 1,
      topic |-> <<"Org", " ", "|", " ", "Operations">>, start_time |-> MEETING_TIME,
      recording_files |->
        << [file_type |-> "MP4", file_extension |-> "MP4", download_url |-> TRUE],
           [file_type |-> "M4A", file_extension |-> "M4A", download_url |-> TRUE],
           [file_type |-> "TIMELINE", file_extension |-> "JSON", download_url |-> TRUE] >>],
     [uuid |-> "m2", host |-> 1,
      topic |-> <<"Operations">>, start_time |-> MEETING_TIME,
      recording_files |->
        << [file_type |-> "TRANSCRIPT", file_extension |-> "VTT", download_url |-> TRUE] >>],
     [uuid |-> "m3", host |-> 2,
      topic |-> <<>>, start_time |-> <<>>,
      recording_files |-> <<>>] >>

\* what the (account-wide) summaries endpoint can list, in listing order
SummaryList ==
  << [meeting_uuid |-> "m1", host |-> 1,
      meeting_topic |-> <<"Org", " ", "|", " ", "Operations">>,
      summary_created_time |-> MEETING_TIME],
     [meeting_uuid |-> "m3", host |-> 2,
      meeting_topic |-> <<>>, summary_created_time |-> <<>>] >>

\* the account's members, in the order the users endpoint lists them
MemberList == <<1, 2>>

Range(f) == {f[i] : i \in DOMAIN f}

\* ------------------------------------------------------------------ state
VARIABLES
  DELETE_AFTER_TRANSFER, \* CONFIG.DELETE_AFTER_TRANSFER
  properties,            \* keys held by PropertiesService.getScriptProperties()
  parsesDates,           \* the spreadsheet stores MM-dd-yyyy text as a Date
  cloudRecordings,       \* recordings the source still holds
  cloudSummaries,        \* summaries the source holds
  sheet,                 \* data rows of the tracking sheet
  errorRows,             \* number of rows of the "Errors" sheet
  folders,               \* Drive folders: [parent, name]
  driveFiles,            \* Drive files created, in creation order
  deleteCalls,           \* uuids deleteZoomRecording was called with, in order
  run,                   \* number of runs started
  pc,                    \* position inside runZoomToDriveConnector
  zoomToken,             \* "none" before acquisition, "null" or the token after
  calls,                 \* source API endpoints requested in the current run
  users, userIdx,        \* the member list and the loop position in it
  items, itemIdx,        \* the recordings or summaries of the current member
  cur,                   \* locals of processRecording / processMeetingSummary
  faults,                \* failures of external calls so far
  route,                 \* a call of getDestinationFolderId (SpecRouter)
  chunks,                \* the window loop of a range fetch (SpecWindows)
  fetch,                 \* a range fetch and its caller's loop (SpecFetch)
  listing,               \* the page loop of getAllZoomUsers (SpecTermination)
  transcript,            \* a call of convertTranscriptToText (SpecTranscript)
  summaryDoc             \* the summary text of processMeetingSummary (SpecSummaryDoc)

vars == <<DELETE_AFTER_TRANSFER, properties, parsesDates, cloudRecordings, cloudSummaries,
          sheet, errorRows, folders, driveFiles, deleteCalls, run, pc, zoomToken,
          calls, users, userIdx, items, itemIdx, cur, faults,
          route, chunks, fetch, listing, transcript, summaryDoc>>

config == <<DELETE_AFTER_TRANSFER, parsesDates, properties>>
texts == <<transcript, summaryDoc>>
others == <<route, chunks, fetch, listing, texts>>
stores == <<sheet, errorRows, folders, driveFiles, deleteCalls, cloudRecordings>>

\* what getMeetingSummaryDetail returns when it has no result: null
NoDetail == [isNull |-> TRUE, detailedSummary |-> FALSE]

NoLocals ==
  [meetingId |-> "", meetingTopic |-> <<>>, meetingDate |-> <<>>, host |-> 0,
   folder |-> [parent |-> "", name |-> <<>>], fileIdx |-> 0, filesTransferred |-> <<>>,
   summaryData |-> NoDetail]

Unused == [phase |-> "unused"]

\* no run is in progress and nothing was transferred yet
RunIdle ==
  /\ cloudRecordings = Range(RecordingList)
  /\ cloudSummaries = Range(SummaryList)
  /\ sheet = <<>>
  /\ errorRows = 0
  /\ folders = {}
  /\ driveFiles = <<>>
  /\ deleteCalls = <<>>
  /\ run = 0
  /\ pc = "idle"
  /\ zoomToken = "none"
  /\ calls = {}
  /\ users = <<>> /\ userIdx = 0
  /\ items = <<>> /\ itemIdx = 0
  /\ cur = NoLocals
  /\ faults = 0

Init ==
  /\ DELETE_AFTER_TRANSFER \in BOOLEAN
  /\ parsesDates \in BOOLEAN
  /\ properties = {}
  /\ RunIdle
  /\ route = Unused /\ chunks = Unused /\ fetch = Unused
  /\ transcript = Unused /\ summaryDoc = Unused /\ listing = Unused

\* an external call may fail only while the failure budget lasts
MayFail == faults < MaxFaults

\* trackError: appends to the "Errors" sheet; its own failure is swallowed
TrackError(logged) == IF logged THEN errorRows + 1 ELSE errorRows

\* ------------------------------------------------------------------ run: start
\* runZoomToDriveConnector is invoked; initTrackingSheet opens the configured
\* (existing) tracking sheet
StartRun ==
  /\ pc = "idle"
  /\ run < MaxRuns
  /\ run' = run + 1
  /\ pc' = "token"
  /\ zoomToken' = "none"
  /\ calls' = {}
  /\ UNCHANGED <<config, others, stores, cloudSummaries, users, userIdx, items, itemIdx,
                 cur, faults>>

\* responses of the token endpoint
TokenResponses ==
  { [threw |-> FALSE, code |-> 200, access_token |-> "tok"],
    [threw |-> FALSE, code |-> 200, access_token |-> ""],
    [threw |-> FALSE, code |-> 401, access_token |-> ""],
    [threw |-> TRUE, code |-> 0, access_token |-> ""] }

getZoomAccessToken(response) ==
  IF ~response.threw /\ response.code = 200 /\ response.access_token # ""
  THEN response.access_token
  ELSE "null"

\* a run that does not test the token
HasToken_Unchecked(token) == TRUE

\* if (!zoomToken) throw ... : the run goes on only with a token
HasToken(token) == token # "null"

\* the end of a run: locals are gone
EndRun ==
  /\ pc' = "idle"
  /\ users' = <<>> /\ userIdx' = 0
  /\ items' = <<>> /\ itemIdx' = 0
  /\ cur' = NoLocals

GetToken ==
  /\ pc = "token"
  /\ \E response \in TokenResponses :
       LET token == getZoomAccessToken(response) IN
       /\ zoomToken' = token
       /\ IF HasToken(token)
          THEN /\ pc' = "users"
               /\ UNCHANGED <<errorRows, faults, users, userIdx, items, itemIdx, cur>>
          ELSE /\ MayFail
               /\ faults' = faults + 1
               /\ \E logged \in BOOLEAN : errorRows' = TrackError(logged)
               /\ EndRun
  /\ UNCHANGED <<config, others, sheet, folders, driveFiles, deleteCalls, cloudRecordings,
                 cloudSummaries, run, calls>>

\* getAllZoomUsers: the pages of members collected before the listing ended
\* (all of them, or fewer when a page request fails)
GetUsers ==
  /\ pc = "users"
  /\ \E n \in 0..Len(MemberList) : users' = SubSeq(MemberList, 1, n)
  /\ calls' = calls \cup {"users"}
  /\ userIdx' = 1
  /\ pc' = "recUser"
  /\ UNCHANGED <<config, others, stores, cloudSummaries, run, zoomToken, items, itemIdx,
                 cur, faults>>

\* ------------------------------------------------------------------ run: recordings
\* getZoomRecordingsForUser: the member's recordings the source holds
RecordingsOf(user) ==
  SelectSeq(RecordingList, LAMBDA r : r \in cloudRecordings /\ r.host = user)

FetchRecordings ==
  /\ pc = "recUser"
  /\ userIdx <= Len(users)
  /\ items' = RecordingsOf(users[userIdx])
  /\ itemIdx' = 1
  /\ calls' = calls \cup {"recordings"}
  /\ pc' = "rec"
  /\ UNCHANGED <<config, others, stores, cloudSummaries, run, zoomToken, users, userIdx,
                 cur, faults>>

\* the first loop over the members is over
RecordingUsersDone ==
  /\ pc = "recUser"
  /\ userIdx > Len(users)
  /\ userIdx' = 1
  /\ pc' = "sumUser"
  /\ UNCHANGED <<config, others, stores, cloudSummaries, run, zoomToken, calls, users,
                 items, itemIdx, cur, faults>>

\* the member's recordings are all processed
RecordingsDone ==
  /\ pc = "rec"
  /\ itemIdx > Len(items)
  /\ userIdx' = userIdx + 1
  /\ pc' = "recUser"
  /\ UNCHANGED <<config, others, stores, cloudSummaries, run, zoomToken, calls, users,
                 items, itemIdx, cur, faults>>

\* a catch that breaks out of the loop over the member's recordings
NextRecording_Break ==
  /\ itemIdx' = Len(items) + 1
  /\ cur' = NoLocals
  /\ pc' = "rec"

\* a catch that also drops the recording after the failed one
NextRecording_SkipOne ==
  /\ itemIdx' = itemIdx + 2
  /\ cur' = NoLocals
  /\ pc' = "rec"

\* processRecording returns (or its catch has run): on to the next recording
NextRecording ==
  /\ itemIdx' = itemIdx + 1
  /\ cur' = NoLocals
  /\ pc' = "rec"

\* a dedup check whose answer is ignored
SkipIfProcessed_Never(processed) == FALSE

\* if (isRecordingProcessed(...)) { ...; return; }
SkipIfProcessed(processed) == processed

\* processRecording, up to the dedup check
RecordingCheck ==
  /\ pc = "rec"
  /\ itemIdx <= Len(items)
  /\ LET recording == items[itemIdx]
         meetingTopic == MeetingTopic(recording.topic)
         meetingDate == MeetingDate(recording.start_time)
     IN IF SkipIfProcessed(isRecordingProcessed(meetingTopic, meetingDate, sheet))
        THEN NextRecording
        ELSE /\ cur' = [NoLocals EXCEPT !.meetingId = recording.uuid,
                                        !.meetingTopic = meetingTopic,
                                        !.meetingDate = meetingDate,
                                        !.host = recording.host]
             /\ pc' = "recFolder"
             /\ UNCHANGED itemIdx
  /\ UNCHANGED <<config, others, stores, cloudSummaries, run, zoomToken, calls, users,
                 userIdx, items, faults>>

\* createDriveFolder(folderName, getDestinationFolderId(meetingTopic))
DriveFolder(meetingDate, meetingTopic) ==
  [parent |-> getDestinationFolderId(FOLDER_MAPPING, DEFAULT_FOLDER_ID, meetingTopic),
   name |-> FolderName(meetingDate, meetingTopic)]

RecordingFolder ==
  /\ pc = "recFolder"
  /\ \/ /\ folders' = folders \cup {DriveFolder(cur.meetingDate, cur.meetingTopic)}
        /\ cur' = [cur EXCEPT !.folder = DriveFolder(cur.meetingDate, cur.meetingTopic),
                              !.fileIdx = 1]
        /\ pc' = "recFiles"
        /\ UNCHANGED <<errorRows, itemIdx, faults>>
     \/ \* createDriveFolder throws: processRecording's catch
        /\ MayFail
        /\ faults' = faults + 1
        /\ \E logged \in BOOLEAN : errorRows' = TrackError(logged)
        /\ NextRecording
        /\ UNCHANGED folders
  /\ UNCHANGED <<config, others, sheet, driveFiles, deleteCalls, cloudRecordings,
                 cloudSummaries, run, zoomToken, calls, users, userIdx, items>>

\* a test of the extension as the source sent it
IsTimeline_CaseSensitive(file) == file.file_extension = "json"

\* if (fileExtension === 'json') continue
IsTimeline(file) == LowerSym(file.file_extension) = "json"

\* the name the file gets in Drive (caption files are stored as .txt)
StoredName(meetingDate, meetingTopic, file) ==
  IF LowerSym(file.file_extension) = "vtt"
  THEN TextFileName(FileName(meetingDate, meetingTopic, file))
  ELSE FileName(meetingDate, meetingTopic, file)

\* a file loop that a failing file ends
AfterFileError_Break(locals, files) == [locals EXCEPT !.fileIdx = Len(files) + 1]

\* catch (error) { Logger.log(...) }: the loop goes on with the next file
AfterFileError(locals, files) == [locals EXCEPT !.fileIdx = @ + 1]

\* one iteration of the loop over recording.recording_files
RecordingFile ==
  /\ pc = "recFiles"
  /\ cur.fileIdx <= Len(items[itemIdx].recording_files)
  /\ LET file == items[itemIdx].recording_files[cur.fileIdx]
         name == StoredName(cur.meetingDate, cur.meetingTopic, file)
     IN IF IsTimeline(file) \/ ~file.download_url
        THEN /\ cur' = [cur EXCEPT !.fileIdx = @ + 1]
             /\ UNCHANGED <<driveFiles, calls, faults>>
        ELSE /\ calls' = calls \cup {"download"}
             /\ \/ \* downloaded and created in the meeting's folder
                   /\ driveFiles' = Append(driveFiles,
                        [folder |-> cur.folder, name |-> name, kind |-> "recording",
                         uuid |-> cur.meetingId, run |-> run,
                         at |-> <<run, userIdx, itemIdx>>,
                         key |-> <<cur.meetingTopic, cur.meetingDate>>])
                   /\ cur' = [cur EXCEPT !.fileIdx = @ + 1,
                                !.filesTransferred = Append(@, TransferEntry(name))]
                   /\ UNCHANGED faults
                \/ \* the download answers non-200, or download/upload throws
                   /\ MayFail
                   /\ faults' = faults + 1
                   /\ cur' = AfterFileError(cur, items[itemIdx].recording_files)
                   /\ UNCHANGED driveFiles
  /\ UNCHANGED <<config, others, sheet, errorRows, folders, deleteCalls, cloudRecordings,
                 cloudSummaries, run, pc, zoomToken, users, userIdx, items, itemIdx>>

\* a processRecording that returns early when nothing was transferred
AfterFiles_SkipEmpty(filesTransferred) ==
  IF filesTransferred = <<>> THEN "rec" ELSE "recDelete"

\* a processRecording that logs the transfer right after the loop over the files
AfterFiles_LogFirst(filesTransferred) == "recLog"

\* a processRecording that never leaves the loop over the files
AfterFiles_Stay(filesTransferred) == "recFiles"

\* where processRecording goes after the loop over the files
AfterFiles(filesTransferred) == "recDelete"

RecordingFilesDone ==
  /\ pc = "recFiles"
  /\ cur.fileIdx > Len(items[itemIdx].recording_files)
  /\ pc' = AfterFiles(cur.filesTransferred)
  /\ IF pc' = "rec" THEN NextRecording ELSE UNCHANGED <<itemIdx, cur>>
  /\ UNCHANGED <<config, others, stores, cloudSummaries, run, zoomToken, calls, users,
                 userIdx, items, faults>>

\* a deletion guard that tests the flag alone
ShouldDeleteSource_FlagOnly(enabled, filesTransferred) == enabled

\* if (CONFIG.DELETE_AFTER_TRANSFER && filesTransferred.length > 0)
ShouldDeleteSource(enabled, filesTransferred) ==
  enabled /\ Len(filesTransferred) > 0

RecordingDelete ==
  /\ pc = "recDelete"
  /\ IF ShouldDeleteSource(DELETE_AFTER_TRANSFER, cur.filesTransferred)
     THEN /\ deleteCalls' = Append(deleteCalls, cur.meetingId)
          /\ calls' = calls \cup {"delete"}
          /\ \/ \* 200 or 204: the source no longer lists the recording
                /\ cloudRecordings' = {r \in cloudRecordings : r.uuid # cur.meetingId}
                /\ UNCHANGED faults
             \/ \* any other answer, or the request throws: false is returned
                /\ MayFail
                /\ faults' = faults + 1
                /\ UNCHANGED cloudRecordings
     ELSE UNCHANGED <<deleteCalls, calls, cloudRecordings, faults>>
  /\ pc' = "recLog"
  /\ UNCHANGED <<config, others, sheet, errorRows, folders, driveFiles, cloudSummaries,
                 run, zoomToken, users, userIdx, items, itemIdx, cur>>

RecordingLog ==
  /\ pc = "recLog"
  /\ \/ /\ sheet' = logTransferToSheet(sheet,
                      TrackingRow(parsesDates, cur.meetingTopic, cur.meetingDate,
                                  Join(cur.filesTransferred, <<", ">>),
                                  cur.folder.name, cur.host,
                                  "recording", cur.meetingId, run))
        /\ UNCHANGED <<errorRows, faults>>
     \/ \* logTransferToSheet throws: processRecording's catch
        /\ MayFail
        /\ faults' = faults + 1
        /\ \E logged \in BOOLEAN : errorRows' = TrackError(logged)
        /\ UNCHANGED sheet
  /\ NextRecording
  /\ UNCHANGED <<config, others, folders, driveFiles, deleteCalls, cloudRecordings,
                 cloudSummaries, run, zoomToken, calls, users, userIdx, items>>

\* ------------------------------------------------------------------ run: summaries
\* getZoomSummariesForUser: the listing is account-wide, the same for every member
SummariesOf(user) == SelectSeq(SummaryList, LAMBDA m : m \in cloudSummaries)

FetchSummaries ==
  /\ pc = "sumUser"
  /\ userIdx <= Len(users)
  /\ items' = SummariesOf(users[userIdx])
  /\ itemIdx' = 1
  /\ calls' = calls \cup {"summaries"}
  /\ pc' = "sum"
  /\ UNCHANGED <<config, others, stores, cloudSummaries, run, zoomToken, users, userIdx,
                 cur, faults>>

\* the second loop over the members is over: the run returns
SummaryUsersDone ==
  /\ pc = "sumUser"
  /\ userIdx > Len(users)
  /\ EndRun
  /\ UNCHANGED <<config, others, stores, cloudSummaries, run, zoomToken, calls, faults>>

SummariesDone ==
  /\ pc = "sum"
  /\ itemIdx > Len(items)
  /\ userIdx' = userIdx + 1
  /\ pc' = "sumUser"
  /\ UNCHANGED <<config, others, stores, cloudSummaries, run, zoomToken, calls, users,
                 items, itemIdx, cur, faults>>

\* a processMeetingSummary that ends in the deletion step of processRecording
NextSummary_DeleteSource ==
  /\ itemIdx' = itemIdx
  /\ cur' = [cur EXCEPT !.filesTransferred = <<AI_SUMMARY>>]
  /\ pc' = "recDelete"

\* processMeetingSummary returns (or its catch has run): on to the next summary
NextSummary ==
  /\ itemIdx' = itemIdx + 1
  /\ cur' = NoLocals
  /\ pc' = "sum"

\* processMeetingSummary, up to the dedup check
SummaryCheck ==
  /\ pc = "sum"
  /\ itemIdx <= Len(items)
  /\ LET meeting == items[itemIdx]
         meetingTopic == MeetingTopic(meeting.meeting_topic)
         meetingDate == MeetingDate(meeting.summary_created_time)
     IN IF SkipIfProcessed(isSummaryProcessed(meetingTopic, meetingDate, sheet))
        THEN NextSummary
        ELSE /\ cur' = [NoLocals EXCEPT !.meetingId = meeting.meeting_uuid,
                                        !.meetingTopic = meetingTopic,
                                        !.meetingDate = meetingDate,
                                        !.host = meeting.host]
             /\ pc' = "sumDetail"
             /\ UNCHANGED itemIdx
  /\ UNCHANGED <<config, others, stores, cloudSummaries, run, zoomToken, calls, users,
                 userIdx, items, faults>>

\* answers of the meeting_summary endpoint: a 200 with or without
\* summary_details, another status, or UrlFetchApp.fetch / JSON.parse throwing
DetailResponses ==
  { [threw |-> FALSE, code |-> 200, summary_details |-> TRUE],
    [threw |-> FALSE, code |-> 200, summary_details |-> FALSE],
    [threw |-> FALSE, code |-> 404, summary_details |-> FALSE],
    [threw |-> TRUE, code |-> 0, summary_details |-> FALSE] }

\* detailedSummary says whether data.summary_details was there
getMeetingSummaryDetail(response) ==
  IF ~response.threw /\ response.code = 200
  THEN [isNull |-> FALSE, detailedSummary |-> response.summary_details]
  ELSE NoDetail

\* a processMeetingSummary that does not test the detail
HasSummaryData_Unchecked(summaryData) == TRUE

\* the negation of: if (!summaryData || !summaryData.detailedSummary) return
HasSummaryData(summaryData) == ~summaryData.isNull /\ summaryData.detailedSummary

\* getMeetingSummaryDetail and the test of its result
SummaryDetail ==
  /\ pc = "sumDetail"
  /\ calls' = calls \cup {"detail"}
  /\ \E response \in DetailResponses :
       LET summaryData == getMeetingSummaryDetail(response) IN
       IF HasSummaryData(summaryData)
       THEN /\ cur' = [cur EXCEPT !.summaryData = summaryData]
            /\ pc' = "sumFolder"
            /\ UNCHANGED <<itemIdx, faults>>
       ELSE \* "No summary data available": return
            /\ MayFail
            /\ faults' = faults + 1
            /\ NextSummary
  /\ UNCHANGED <<config, others, stores, cloudSummaries, run, zoomToken, users, userIdx,
                 items>>

\* the existing folder of that name, or createDriveFolder
SummaryFolder ==
  /\ pc = "sumFolder"
  /\ \/ /\ folders' = folders \cup {DriveFolder(cur.meetingDate, cur.meetingTopic)}
        /\ cur' = [cur EXCEPT !.folder = DriveFolder(cur.meetingDate, cur.meetingTopic)]
        /\ pc' = "sumWrite"
        /\ UNCHANGED <<errorRows, itemIdx, faults>>
     \/ \* createDriveFolder throws: processMeetingSummary's catch
        /\ MayFail
        /\ faults' = faults + 1
        /\ \E logged \in BOOLEAN : errorRows' = TrackError(logged)
        /\ NextSummary
        /\ UNCHANGED folders
  /\ UNCHANGED <<config, others, sheet, driveFiles, deleteCalls, cloudRecordings,
                 cloudSummaries, run, zoomToken, calls, users, userIdx, items>>

SummaryFileName(meetingDate, meetingTopic) ==
  meetingDate \o <<"_">> \o meetingTopic \o <<"_", "aiSummary", ".", "txt">>

\* folder.createFile(...) and logTransferToSheet(..., `AI Summary`, ...)
SummaryWrite ==
  /\ pc = "sumWrite"
  /\ \/ /\ driveFiles' = Append(driveFiles,
             [folder |-> cur.folder,
              name |-> SummaryFileName(cur.meetingDate, cur.meetingTopic),
              kind |-> "summary", uuid |-> cur.meetingId, run |-> run,
              at |-> <<run, userIdx, itemIdx>>,
              key |-> <<cur.meetingTopic, cur.meetingDate>>])
        /\ \/ /\ sheet' = logTransferToSheet(sheet,
                    TrackingRow(parsesDates, cur.meetingTopic, cur.meetingDate,
                                AI_SUMMARY, cur.folder.name, cur.host,
                                "summary", cur.meetingId, run))
              /\ UNCHANGED <<errorRows, faults>>
           \/ \* logTransferToSheet throws after the file was created
              /\ MayFail
              /\ faults' = faults + 1
              /\ \E logged \in BOOLEAN : errorRows' = TrackError(logged)
              /\ UNCHANGED sheet
     \/ \* createFile throws
        /\ MayFail
        /\ faults' = faults + 1
        /\ \E logged \in BOOLEAN : errorRows' = TrackError(logged)
        /\ UNCHANGED <<driveFiles, sheet>>
  /\ NextSummary
  /\ UNCHANGED <<config, others, folders, deleteCalls, cloudRecordings, cloudSummaries,
                 run, zoomToken, calls, users, userIdx, items>>

\* ------------------------------------------------------------------ specification
Next ==
  \/ StartRun
  \/ GetToken
  \/ GetUsers
  \/ FetchRecordings
  \/ RecordingCheck
  \/ RecordingFolder
  \/ RecordingFile
  \/ RecordingFilesDone
  \/ RecordingDelete
  \/ RecordingLog
  \/ RecordingsDone
  \/ RecordingUsersDone
  \/ FetchSummaries
  \/ SummaryCheck
  \/ SummaryDetail
  \/ SummaryFolder
  \/ SummaryWrite
  \/ SummariesDone
  \/ SummaryUsersDone

Spec == Init /\ [][Next]_vars

\* ------------------------------------------------------------------ properties
Kinds == {"recording", "summary"}

\* the (topic, date) keys of the items the source can list
ItemKeys ==
  {<<MeetingTopic(r.topic), MeetingDate(r.start_time)>> : r \in Range(RecordingList)}
    \cup {<<MeetingTopic(m.meeting_topic), MeetingDate(m.summary_created_time)>> :
            m \in Range(SummaryList)}

\* DedupLedger.isProcessed: the check the connector runs for an item of `kind`
isProcessed(meetingTopic, meetingDate, kind, data) ==
  IF kind = "recording"
  THEN isRecordingProcessed(meetingTopic, meetingDate, data)
  ELSE isSummaryProcessed(meetingTopic, meetingDate, data)

RowsOf(kind, key) == {i \in 1..Len(sheet) : sheet[i].kind = kind /\ sheet[i].key = key}
FilesOf(kind, key) ==
  {i \in 1..Len(driveFiles) : driveFiles[i].kind = kind /\ driveFiles[i].key = key}

\* C1: a recording whose tracking row was written in an earlier run gets no
\* further tracking row and no further upload in a later run
C1_SecondRunTransfersNothing ==
  \A i \in 1..Len(sheet) :
    sheet[i].kind = "recording" =>
      /\ \A j \in RowsOf("recording", sheet[i].key) : sheet[j].run <= sheet[i].run
      /\ \A f \in FilesOf("recording", sheet[i].key) : driveFiles[f].run <= sheet[i].run

\* C2: for every (topic, date, kind) at most one item was uploaded and at most
\* one tracking row was appended
C2_AtMostOneTransferPerKey ==
  \A kind \in Kinds, key \in ItemKeys :
    /\ Cardinality(RowsOf(kind, key)) <= 1
    /\ \A f, g \in FilesOf(kind, key) : driveFiles[f].at = driveFiles[g].at

\* C3: deleteZoomRecording is called only from the deletion step of a recording,
\* with DELETE_AFTER_TRANSFER enabled and at least one file of that recording
\* created in Drive by this processing of it
C3_DeleteOnlyAfterTransfer ==
  [][deleteCalls' # deleteCalls =>
       /\ DELETE_AFTER_TRANSFER
       /\ pc = "recDelete"
       /\ deleteCalls' = Append(deleteCalls, cur.meetingId)
       /\ \E f \in 1..Len(driveFiles) :
            /\ driveFiles[f].kind = "recording"
            /\ driveFiles[f].uuid = cur.meetingId
            /\ driveFiles[f].at = <<run, userIdx, itemIdx>>]_vars

\* a deletion was requested, and another recording with the flag enabled and no
\* file transferred is past the deletion step without a request
C3_Witness ==
  /\ DELETE_AFTER_TRANSFER
  /\ deleteCalls # <<>>
  /\ pc = "recLog"
  /\ cur.filesTransferred = <<>>
  /\ cur.meetingId \notin Range(deleteCalls)

\* C4: a recording that ends its file loop with nothing transferred goes on to
\* the deletion guard (which requests nothing) and to logTransferToSheet, and
\* the row logTransferToSheet writes for it has an empty file-types cell
C4_ZeroFilesStillLogged ==
  [][/\ (pc = "recFiles" /\ pc' # "recFiles" /\ cur.filesTransferred = <<>>)
          => (pc' = "recDelete" /\ cur' = cur)
     /\ (pc = "recDelete" /\ cur.filesTransferred = <<>>)
          => (pc' = "recLog" /\ cur' = cur /\ deleteCalls' = deleteCalls)
     /\ (pc = "recLog" /\ cur.filesTransferred = <<>> /\ faults' = faults)
          => /\ Len(sheet') = Len(sheet) + 1
             /\ SubSeq(sheet', 1, Len(sheet)) = sheet
             /\ sheet'[Len(sheet')].kind = "recording"
             /\ sheet'[Len(sheet')].uuid = cur.meetingId
             /\ sheet'[Len(sheet')].key = <<cur.meetingTopic, cur.meetingDate>>
             /\ sheet'[Len(sheet')].files = StrCell(<<>>)]_vars

\* a recording row with an empty file-types cell whose processing created no file
C4_Witness ==
  \E i \in 1..Len(sheet) :
    /\ sheet[i].kind = "recording"
    /\ sheet[i].files = StrCell(<<>>)
    /\ \A f \in 1..Len(driveFiles) :
         ~(driveFiles[f].uuid = sheet[i].uuid /\ driveFiles[f].run = sheet[i].run)
    /\ \E j \in 1..Len(sheet) : sheet[j].uuid = "m2" /\ sheet[j].files = StrCell(<<>>)

\* C5: for both kinds, the dedup check of (topic, date) answers true exactly
\* when the sheet holds a row of that kind written for that topic and date
C5_IsProcessedIffRowPresent ==
  \A kind \in Kinds, key \in ItemKeys :
    isProcessed(key[1], key[2], kind, sheet) <=> RowsOf(kind, key) # {}

\* C6: no row written for a recording makes the summary check true, and no row
\* written for a summary makes the recording check true
C6_DistinctNamespaces ==
  \A i \in 1..Len(sheet) : \A key \in ItemKeys :
    /\ sheet[i].kind = "recording" => ~isSummaryProcessed(key[1], key[2], <<sheet[i]>>)
    /\ sheet[i].kind = "summary" => ~isRecordingProcessed(key[1], key[2], <<sheet[i]>>)

\* C9: a run whose token acquisition failed ends at once: no source endpoint is
\* requested, and the tracking sheet, the Drive tree and the source are untouched
C9_NoTokenNoProcessing ==
  [][zoomToken' = "null" =>
       /\ pc' = "idle"
       /\ calls' = {}
       /\ UNCHANGED <<sheet, folders, driveFiles, deleteCalls, cloudRecordings>>]_vars

\* a run has ended on a failed token acquisition
C9_Witness == zoomToken = "null" /\ pc = "idle" /\ run >= 1

\* ================================================================== SpecRouter
\* getDestinationFolderId over bounded mappings and topics
MaxKeywords == 2
MaxTopicLen == 2

RouterKeywords == { <<"operations">>, <<"Council">>, <<"7">>, <<"42">> }
RouterSymbols == {"Operations", "COUNCIL", "7", "42", "Sync"}

\* the sequences over S of length at most n
SeqsUpTo(S, n) == UNION {[1..k -> S] : k \in 0..n}

\* object literals of at most MaxKeywords distinct keys; the i-th key maps to "F<i>"
RouterMappings ==
  { [i \in 1..Len(ks) |-> [keyword |-> ks[i], id |-> "F" \o ToString(i)]] :
      ks \in {q \in SeqsUpTo(RouterKeywords, MaxKeywords) :
                \A i, j \in 1..Len(q) : i # j => q[i] # q[j]} }

RouterTopics == SeqsUpTo(RouterSymbols, MaxTopicLen)

RouterInit ==
  /\ route \in { [phase |-> "called", mapping |-> m, topic |-> t, result |-> ""] :
                   m \in RouterMappings, t \in RouterTopics }
  /\ DELETE_AFTER_TRANSFER = FALSE /\ parsesDates = FALSE /\ properties = {}
  /\ RunIdle
  /\ chunks = Unused /\ fetch = Unused
  /\ transcript = Unused /\ summaryDoc = Unused /\ listing = Unused

Resolve ==
  /\ route.phase = "called"
  /\ route' = [route EXCEPT
                 !.phase = "returned",
                 !.result = getDestinationFolderId(route.mapping, DEFAULT_FOLDER_ID,
                                                   route.topic)]
  /\ UNCHANGED <<config, stores, cloudSummaries, run, pc, zoomToken, calls, users,
                 userIdx, items, itemIdx, cur, faults, listing, chunks, fetch, texts>>

RouterNext == Resolve

SpecRouter == RouterInit /\ [][RouterNext]_vars

\* the folder of the first pair, in the configured order, whose keyword occurs
\* in the topic regardless of case; the default folder when there is none
FirstConfiguredMatch(mapping, default, topic) ==
  LET hits == {i \in 1..Len(mapping) :
                 Includes(toLowerCase(topic), toLowerCase(mapping[i].keyword))}
  IN IF hits = {} THEN default
     ELSE mapping[CHOOSE i \in hits : \A j \in hits : i <= j].id

\* C7: getDestinationFolderId returns the folder of the first keyword, in
\* configured order, that occurs case-insensitively in the topic, and
\* DEFAULT_FOLDER_ID when no keyword occurs
C7_FirstConfiguredKeywordWins ==
  route.phase = "returned" =>
    route.result = FirstConfiguredMatch(route.mapping, DEFAULT_FOLDER_ID, route.topic)

\* ================================================================== SpecWindows
\* the window loop of getZoomRecordingsForUser / getZoomSummariesForUser.
\* A date is a day number (today is day 0, earlier days are negative);
\* Date.setDate(getDate() - n) is the subtraction of n days.
MaxDays == 61

chunkSize == 30

\* a window count that rounds down
NumChunks_Floor(days) == days \div chunkSize

\* Math.ceil(CONFIG.DAYS_TO_FETCH / chunkSize)
NumChunks(days) == (days + chunkSize - 1) \div chunkSize

\* the i-th window (i from 0): [from, to] as sent to the endpoint
Chunk(today, fromDate, i) ==
  LET chunkEndDate == today - (i * chunkSize)
      chunkStartDate == chunkEndDate - chunkSize
  IN [from |-> IF chunkStartDate < fromDate THEN fromDate ELSE chunkStartDate,
      to |-> chunkEndDate]

WindowsInit ==
  /\ chunks \in { [phase |-> "loop", kind |-> k, days |-> d, today |-> 0,
                   fromDate |-> 0 - d, i |-> 0, numChunks |-> NumChunks(d),
                   requested |-> <<>>] :
                    k \in Kinds, d \in 0..MaxDays }
  /\ DELETE_AFTER_TRANSFER = FALSE /\ parsesDates = FALSE /\ properties = {}
  /\ RunIdle
  /\ route = Unused /\ fetch = Unused
  /\ transcript = Unused /\ summaryDoc = Unused /\ listing = Unused

\* one iteration of the loop over the chunks: the window is requested
RequestChunk ==
  /\ chunks.phase = "loop"
  /\ chunks.i < chunks.numChunks
  /\ chunks' = [chunks EXCEPT
                  !.requested = Append(@, Chunk(chunks.today, chunks.fromDate, chunks.i)),
                  !.i = @ + 1]
  /\ UNCHANGED <<config, stores, cloudSummaries, run, pc, zoomToken, calls, users,
                 userIdx, items, itemIdx, cur, faults, listing, route, fetch, texts>>

\* the loop is over: the merged list is returned
ReturnChunks ==
  /\ chunks.phase = "loop"
  /\ chunks.i >= chunks.numChunks
  /\ chunks' = [chunks EXCEPT !.phase = "returned"]
  /\ UNCHANGED <<config, stores, cloudSummaries, run, pc, zoomToken, calls, users,
                 userIdx, items, itemIdx, cur, faults, listing, route, fetch, texts>>

WindowsNext == RequestChunk \/ ReturnChunks

SpecWindows == WindowsInit /\ [][WindowsNext]_vars

\* C8: a range of at most 30 days (0 days included) is fetched in exactly one
\* window and a range of 31 to 60 days in exactly two; no window starts before
\* fromDate, the earliest window starts at fromDate, no window spans more than
\* 30 days
C8_WindowCountAndClamp ==
  chunks.phase = "returned" =>
    LET w == chunks.requested IN
    /\ chunks.days <= 30 => Len(w) = 1
    /\ (chunks.days >= 31 /\ chunks.days <= 60) => Len(w) = 2
    /\ \A k \in 1..Len(w) : w[k].from >= chunks.fromDate
    /\ \E k \in 1..Len(w) :
         w[k].from = chunks.fromDate /\ \A j \in 1..Len(w) : w[k].from <= w[j].from
    /\ \A k \in 1..Len(w) : w[k].to - w[k].from <= 30

\* ================================================================== SpecFetch
\* getZoomRecordingsForUser / getZoomSummariesForUser with the page loops of
\* fetchRecordingsForDateRange / fetchSummariesForDateRange, and the caller's
\* loop over the returned list, for each member in turn. An item is
\* <<member, window, request, k>>: the member it was listed for, the window
\* (from 0, the most recent one), the request of that window (from 1) that
\* delivered it and its position on that page.
MaxPages == 2

\* lookback lengths that give no, one and two windows
FetchDays == {0, 1, chunkSize + 1}

\* numbers of items a page can hold
PageSizes == {0, 1, 2}

\* answers of a listing endpoint to one page request: "ok" is a 200 with
\* n items (`some` says whether it holds any), `more` whether page_count
\* exceeds the page number (recordings) or a next_page_token is given
\* (summaries); "error" is any other status; "threw" is UrlFetchApp.fetch or
\* JSON.parse throwing. The server stops announcing pages after MaxPages.
PageResponses(requestNo) ==
  { [status |-> "ok", some |-> n > 0, more |-> m, n |-> n] :
      n \in PageSizes, m \in {x \in BOOLEAN : x => requestNo < MaxPages} }
    \cup { [status |-> "error", some |-> FALSE, more |-> FALSE, n |-> 0],
           [status |-> "threw", some |-> FALSE, more |-> FALSE, n |-> 0] }

FetchInit ==
  /\ fetch \in { [phase |-> "chunk", kind |-> k, days |-> d,
                  numChunks |-> NumChunks(d), i |-> 0, requestNo |-> 0,
                  inWindow |-> <<>>, all |-> <<>>, result |-> <<>>,
                  served |-> <<>>, log |-> <<>>, threw |-> FALSE,
                  processed |-> <<>>, member |-> 1, last |-> <<>>] :
                   k \in Kinds, d \in FetchDays }
  /\ DELETE_AFTER_TRANSFER = FALSE /\ parsesDates = FALSE /\ properties = {}
  /\ RunIdle
  /\ route = Unused /\ chunks = Unused
  /\ transcript = Unused /\ summaryDoc = Unused /\ listing = Unused

FetchFrame ==
  UNCHANGED <<config, stores, cloudSummaries, run, pc, zoomToken, calls, users,
              userIdx, items, itemIdx, cur, faults, listing, route, chunks, texts>>

\* the window loop enters fetch...ForDateRange for window i
EnterWindow ==
  /\ fetch.phase = "chunk"
  /\ fetch.i < fetch.numChunks
  /\ fetch' = [fetch EXCEPT !.phase = "page", !.requestNo = 0, !.inWindow = <<>>]
  /\ FetchFrame

\* fetchRecordingsForDateRange has no try/catch around its requests
CatchesInPageLoop(kind) == kind = "summary"

\* a window loop that puts each window's items in front of the earlier ones
WindowReturned_Prepend(f, collected) ==
  [f EXCEPT !.phase = "chunk",
            !.all = collected \o @,
            !.inWindow = <<>>,
            !.i = @ + 1,
            !.log = IF f.i < f.numChunks - 1 THEN Append(@, <<"sleep">>) ELSE @]

\* the page loop of the window ended with `collected`: concat, the pause
\* between windows, and the next iteration of the window loop
WindowReturned(f, collected) ==
  [f EXCEPT !.phase = "chunk",
            !.all = @ \o collected,
            !.inWindow = <<>>,
            !.i = @ + 1,
            !.log = IF f.i < f.numChunks - 1 THEN Append(@, <<"sleep">>) ELSE @]

\* one iteration of the while loop: a page request and what follows from its answer
PageRequest ==
  /\ fetch.phase = "page"
  /\ \E response \in PageResponses(fetch.requestNo + 1) :
       LET no == fetch.requestNo + 1
           asked == [fetch EXCEPT
                       !.requestNo = no,
                       !.log = @ \o << <<"request", fetch.i, no>>,
                                       <<"answer", fetch.i, no, response.status,
                                         response.some, response.more>> >>]
           pageItems == [k \in 1..response.n |-> <<fetch.member, fetch.i, no, k>>]
           collected == IF response.some THEN fetch.inWindow \o pageItems
                        ELSE fetch.inWindow
       IN
       CASE response.status = "ok" /\ response.more ->
              fetch' = [asked EXCEPT
                          !.inWindow = collected,
                          !.served = IF response.some THEN @ \o pageItems ELSE @]
         [] response.status = "ok" /\ ~response.more ->
              fetch' = WindowReturned(
                         [asked EXCEPT
                            !.served = IF response.some THEN @ \o pageItems ELSE @],
                         collected)
         [] response.status = "error" ->
              fetch' = WindowReturned(asked, fetch.inWindow)
         [] response.status = "threw" /\ CatchesInPageLoop(fetch.kind) ->
              fetch' = WindowReturned(asked, fetch.inWindow)
         [] response.status = "threw" /\ ~CatchesInPageLoop(fetch.kind) ->
              \* the catch of getZoomRecordingsForUser: return []
              fetch' = [asked EXCEPT !.phase = "returned", !.threw = TRUE,
                                     !.inWindow = <<>>, !.result = <<>>]
  /\ FetchFrame

\* the window loop is over: return allRecordings / allSummaries
ReturnRange ==
  /\ fetch.phase = "chunk"
  /\ fetch.i >= fetch.numChunks
  /\ fetch' = [fetch EXCEPT !.phase = "returned", !.result = fetch.all]
  /\ FetchFrame

\* the caller's loop: processRecording / processMeetingSummary on the next item
ProcessReturned ==
  /\ fetch.phase = "returned"
  /\ Len(fetch.processed) < Len(fetch.result)
  /\ fetch' = [fetch EXCEPT
                 !.processed = Append(@, fetch.result[Len(fetch.processed) + 1]),
                 !.last = fetch.result[Len(fetch.processed) + 1]]
  /\ FetchFrame

CallerDone ==
  /\ fetch.phase = "returned"
  /\ Len(fetch.processed) >= Len(fetch.result)
  /\ fetch' = [fetch EXCEPT !.phase = "done"]
  /\ FetchFrame

\* for (const user of users): the range fetch starts over for the next member
NextMember ==
  /\ fetch.phase = "done"
  /\ fetch.member < Len(MemberList)
  /\ fetch' = [fetch EXCEPT !.phase = "chunk", !.member = @ + 1, !.i = 0,
                            !.requestNo = 0, !.inWindow = <<>>, !.all = <<>>,
                            !.result = <<>>, !.served = <<>>, !.log = <<>>,
                            !.threw = FALSE, !.processed = <<>>]
  /\ FetchFrame

FetchNext ==
  \/ EnterWindow
  \/ PageRequest
  \/ ReturnRange
  \/ ProcessReturned
  \/ CallerDone
  \/ NextMember

SpecFetch == FetchInit /\ [][FetchNext]_vars

\* the windows a request was sent for
WindowsAsked(f) == {f.log[k][2] : k \in {j \in 1..Len(f.log) : f.log[j][1] = "request"}}

\* C10: whatever page requests failed, the range fetch returns to its caller
\* every item that a page delivered, every window was requested, the caller
\* processes every returned item, and no request is sent twice
C10_PartialResultsSurvive ==
  /\ fetch.phase \in {"returned", "done"} =>
       /\ fetch.result = fetch.served
       /\ WindowsAsked(fetch) = 0..(fetch.numChunks - 1)
  /\ fetch.phase = "done" => fetch.processed = fetch.served
  /\ \A j, k \in 1..Len(fetch.log) : (j # k /\ fetch.log[j] = fetch.log[k])
                                        => fetch.log[j] = <<"sleep">>

\* the positions of the log holding a page request / the answer to one
RequestsAt(f) == {k \in 1..Len(f.log) : f.log[k][1] = "request"}
AnswersAt(f) == {k \in 1..Len(f.log) : f.log[k][1] = "answer"}

\* C11: the requests of a window carry the page numbers 1, 2, ... in order, and
\* after an answer that announces no further page, or that holds no item, no
\* further request is sent for that window
C11_PaginationStops ==
  /\ \A k \in RequestsAt(fetch) :
       fetch.log[k][3] =
         1 + Cardinality({j \in RequestsAt(fetch) :
                            j < k /\ fetch.log[j][2] = fetch.log[k][2]})
  /\ \A a \in AnswersAt(fetch) :
       (fetch.log[a][4] = "ok" /\ (~fetch.log[a][6] \/ ~fetch.log[a][5]))
         => \A k \in RequestsAt(fetch) : k > a => fetch.log[k][2] # fetch.log[a][2]

\* a precedes b: earlier member, or same member and earlier window, or same
\* window and earlier request, or same page and earlier position on it
ItemBefore(a, b) ==
  \/ a[1] < b[1]
  \/ a[1] = b[1] /\ a[2] < b[2]
  \/ a[1] = b[1] /\ a[2] = b[2] /\ a[3] < b[3]
  \/ a[1] = b[1] /\ a[2] = b[2] /\ a[3] = b[3] /\ a[4] < b[4]

\* C12: the items are processed member by member in enumeration order, a
\* member's items all before the next member's, and within a member in window
\* order (most recent first), page order and in-page order
C12_ProcessingOrder ==
  [][/\ fetch'.last # fetch.last =>
          /\ fetch.phase = "returned"
          /\ fetch'.last = fetch.result[Len(fetch.processed) + 1]
          /\ fetch'.last[1] = fetch.member
          /\ fetch.last # <<>> => ItemBefore(fetch.last, fetch'.last)
     /\ fetch'.member # fetch.member =>
          /\ fetch'.member = fetch.member + 1
          /\ fetch.processed = fetch.result
     /\ \A j, k \in 1..Len(fetch'.result) :
          j < k => ItemBefore(fetch'.result[j], fetch'.result[k])]_vars

\* the first member's last item was the second of its page, and the range
\* fetch of the second member has returned items of two windows, one of them
\* from a second page
C12_Witness ==
  /\ fetch.phase = "returned"
  /\ fetch.member = 2
  /\ fetch.processed = <<>>
  /\ fetch.last # <<>> /\ fetch.last[1] = 1 /\ fetch.last[4] = 2
  /\ \E j, k \in 1..Len(fetch.result) :
       /\ fetch.result[j][2] = 0 /\ fetch.result[j][3] = 2
       /\ fetch.result[k][2] = 1

\* positions inside processRecording / processMeetingSummary after the dedup check
ItemSteps == {"recFolder", "recFiles", "recDelete", "recLog",
              "sumDetail", "sumFolder", "sumWrite"}

\* C13: a failure while an item is processed leaves the run in progress at the
\* same item or the next one, with at most one row added to the error log;
\* a run ends only on a failed token acquisition or after the last member's
\* summaries; the loops advance one item and one member at a time, a member
\* only after the last of its items
C13_ItemFailureNeverStopsRun ==
  [][/\ (pc \in ItemSteps /\ faults' # faults) =>
          /\ pc' # "idle"
          /\ run' = run /\ users' = users /\ userIdx' = userIdx /\ items' = items
          /\ itemIdx' \in {itemIdx, itemIdx + 1}
          /\ errorRows' \in {errorRows, errorRows + 1}
     /\ (pc # "idle" /\ pc' = "idle") =>
          \/ pc = "token"
          \/ pc = "sumUser" /\ userIdx > Len(users)
     /\ (itemIdx' # itemIdx /\ pc' # "idle") =>
          \/ itemIdx' = itemIdx + 1 /\ itemIdx <= Len(items)
          \/ pc \in {"recUser", "sumUser"} /\ itemIdx' = 1
     /\ (userIdx' # userIdx /\ pc' # "idle") =>
          \/ userIdx' = userIdx + 1 /\ pc \in {"rec", "sum"} /\ itemIdx > Len(items)
          \/ pc = "users" /\ userIdx' = 1
          \/ pc = "recUser" /\ userIdx > Len(users) /\ userIdx' = 1]_vars

\* folder creation failed for the first member's first recording and the error
\* log could not be written; the member's second recording was transferred and
\* logged, and the second member's recording is being processed
C13_Witness ==
  /\ run = 1 /\ faults = 1 /\ errorRows = 0
  /\ \A i \in 1..Len(sheet) : sheet[i].uuid # "m1"
  /\ \A f \in 1..Len(driveFiles) : driveFiles[f].uuid # "m1"
  /\ \E i \in 1..Len(sheet) : sheet[i].uuid = "m2"
  /\ userIdx = 2 /\ pc = "recFolder" /\ cur.meetingId = "m3"

\* C17: a recording that is not skipped goes from the dedup check to the folder,
\* from the folder to the loop over its files, from there (all files attempted)
\* to the deletion guard and from there to the tracking row; folders, files,
\* deletion requests and recording rows are produced only at their own step, so
\* no file is transferred after the deletion request and the row comes last
C17_RecordingStepOrder ==
  [][/\ pc' = "recFolder" =>
          /\ pc = "rec"
          /\ ~isRecordingProcessed(cur'.meetingTopic, cur'.meetingDate, sheet)
     /\ pc' = "recFiles" =>
          /\ pc \in {"recFolder", "recFiles"}
          /\ cur'.folder \in folders'
     /\ pc' = "recDelete" =>
          /\ pc = "recFiles"
          /\ cur.fileIdx > Len(items[itemIdx].recording_files)
     /\ pc' = "recLog" => pc = "recDelete"
     /\ pc = "recFolder" => pc' \in {"recFiles", "rec"}
     /\ pc = "recFiles" => pc' \in {"recFiles", "recDelete"}
     /\ pc = "recDelete" => pc' = "recLog"
     /\ pc = "recLog" => pc' = "rec" /\ itemIdx' = itemIdx + 1
     /\ (folders' # folders /\ pc \notin {"sumFolder"}) => pc = "recFolder"
     /\ (driveFiles' # driveFiles /\ pc # "sumWrite") =>
          /\ pc = "recFiles"
          /\ driveFiles'[Len(driveFiles')].uuid = cur.meetingId
     /\ ("download" \in calls' /\ "download" \notin calls) => pc = "recFiles"
     /\ deleteCalls' # deleteCalls => pc = "recDelete"
     /\ (sheet' # sheet /\ pc # "sumWrite") =>
          /\ pc = "recLog"
          /\ sheet'[Len(sheet')].uuid = cur.meetingId]_vars

\* recording m1 went through every step: its folder exists, its file is in
\* Drive, its deletion was requested and its row is appended
C17_Witness ==
  /\ \E f \in 1..Len(driveFiles) :
       /\ driveFiles[f].uuid = "m1" /\ driveFiles[f].kind = "recording"
       /\ driveFiles[f].folder \in folders
  /\ "m1" \in Range(deleteCalls)
  /\ \E i \in 1..Len(sheet) :
       /\ sheet[i].uuid = "m1" /\ sheet[i].kind = "recording"
       /\ sheet[i].files # StrCell(<<>>)

\* C18: processing an item whose dedup check answers true changes nothing but
\* the loop position: no endpoint is requested, and the tracking sheet, the
\* error log, the Drive tree and the source stay as they are
C18_ProcessedItemHasNoEffect ==
  [][/\ (/\ pc = "rec" /\ itemIdx <= Len(items)
          /\ isRecordingProcessed(MeetingTopic(items[itemIdx].topic),
                                  MeetingDate(items[itemIdx].start_time), sheet)) =>
          /\ pc' = "rec" /\ itemIdx' = itemIdx + 1
          /\ UNCHANGED <<sheet, errorRows, folders, driveFiles, deleteCalls,
                         cloudRecordings, cloudSummaries, calls>>
     /\ (/\ pc = "sum" /\ itemIdx <= Len(items)
          /\ isSummaryProcessed(MeetingTopic(items[itemIdx].meeting_topic),
                                MeetingDate(items[itemIdx].summary_created_time),
                                sheet)) =>
          /\ pc' = "sum" /\ itemIdx' = itemIdx + 1
          /\ UNCHANGED <<sheet, errorRows, folders, driveFiles, deleteCalls,
                         cloudRecordings, cloudSummaries, calls>>]_vars

\* in a second run without failures, the second member's recording m3 and the
\* summary of m1 were passed over: each still has the one row of the first run
C18_Witness ==
  /\ run = 2 /\ faults = 0
  /\ pc = "sumUser" /\ userIdx = 2
  /\ Cardinality({i \in 1..Len(sheet) :
                    sheet[i].kind = "recording" /\ sheet[i].uuid = "m3"}) = 1
  /\ Cardinality({i \in 1..Len(sheet) :
                    sheet[i].kind = "summary" /\ sheet[i].uuid = "m1"}) = 1
  /\ \A i \in 1..Len(sheet) : sheet[i].uuid \in {"m1", "m3"} => sheet[i].run = 1

\* C19: a file whose download or upload fails adds nothing to filesTransferred
\* and nothing to Drive, and the loop goes on with the next file; every entry
\* of filesTransferred comes with a file created in Drive; the loop is left,
\* for the deletion guard, only after the last file; the guard leads to
\* logTransferToSheet, which appends the row unless it fails itself
C19_FileFailureIsConfined ==
  [][/\ pc = "recFiles" =>
          /\ cur'.fileIdx \in {cur.fileIdx, cur.fileIdx + 1}
          /\ faults' # faults =>
               /\ pc' = "recFiles"
               /\ cur'.fileIdx = cur.fileIdx + 1
               /\ cur'.filesTransferred = cur.filesTransferred
               /\ UNCHANGED <<driveFiles, sheet, errorRows, itemIdx>>
          /\ cur'.filesTransferred # cur.filesTransferred =>
               /\ faults' = faults
               /\ Len(driveFiles') = Len(driveFiles) + 1
               /\ cur'.filesTransferred =
                    Append(cur.filesTransferred,
                           TransferEntry(driveFiles'[Len(driveFiles')].name))
          /\ pc' # "recFiles" =>
               /\ pc' = "recDelete"
               /\ cur.fileIdx > Len(items[itemIdx].recording_files)
               /\ cur' = cur
     /\ pc = "recDelete" => pc' = "recLog" /\ cur' = cur
     /\ (pc = "recLog" /\ faults' = faults) =>
          /\ Len(sheet') = Len(sheet) + 1
          /\ sheet'[Len(sheet')].uuid = cur.meetingId
          /\ sheet'[Len(sheet')].files = StrCell(FileTypesList(Join(cur.filesTransferred, <<", ">>)))]_vars

\* the video of m1 failed, its audio file was transferred and its row says so
C19_Witness ==
  /\ faults = 1
  /\ \E i \in 1..Len(sheet) :
       /\ sheet[i].uuid = "m1" /\ sheet[i].kind = "recording"
       /\ sheet[i].files = StrCell(<<"Audio">>)
       /\ \E f \in 1..Len(driveFiles) :
            driveFiles[f].uuid = "m1" /\ driveFiles[f].run = sheet[i].run
       /\ \A f \in 1..Len(driveFiles) :
            (driveFiles[f].uuid = "m1" /\ driveFiles[f].kind = "recording")
              => ~Includes(driveFiles[f].name, <<"mp4">>)

\* C20: when createDriveFolder throws for an item, the item is left at once:
\* no folder, no download, no Drive file, no deletion request and no tracking
\* row; trackError is called (a row in the error log unless that fails too) and
\* the loop is at the next item. The file loop is entered only with the folder.
C20_FolderFailureAbortsItem ==
  [][/\ (pc = "recFolder" /\ faults' # faults) =>
          /\ pc' = "rec" /\ itemIdx' = itemIdx + 1 /\ cur' = NoLocals
          /\ UNCHANGED <<folders, driveFiles, deleteCalls, sheet, calls,
                         cloudRecordings, users, userIdx, items, run>>
          /\ errorRows' \in {errorRows, errorRows + 1}
     /\ (pc = "sumFolder" /\ faults' # faults) =>
          /\ pc' = "sum" /\ itemIdx' = itemIdx + 1 /\ cur' = NoLocals
          /\ UNCHANGED <<folders, driveFiles, deleteCalls, sheet, calls,
                         cloudRecordings, users, userIdx, items, run>>
          /\ errorRows' \in {errorRows, errorRows + 1}
     /\ (pc = "recFolder" /\ pc' = "recFiles") =>
          /\ faults' = faults
          /\ DriveFolder(cur.meetingDate, cur.meetingTopic) \in folders'
     /\ (pc # "recFiles" /\ pc' = "recFiles") => pc = "recFolder"
     /\ (pc # "sumWrite" /\ pc' = "sumWrite") =>
          /\ pc = "sumFolder" /\ faults' = faults
          /\ DriveFolder(cur.meetingDate, cur.meetingTopic) \in folders']_vars

\* folder creation failed for the first recording of the first run: the error
\* is in the error log, nothing was requested, created or logged for it, and
\* the loop is at the second recording
C20_Witness ==
  /\ run = 1 /\ faults = 1 /\ errorRows = 1
  /\ pc = "rec" /\ userIdx = 1 /\ itemIdx = 2 /\ Len(items) >= 2
  /\ folders = {} /\ driveFiles = <<>> /\ sheet = <<>> /\ deleteCalls = <<>>
  /\ "download" \notin calls

\* ================================================================== SpecTranscript
\* convertTranscriptToText on caption texts. A text is a sequence of symbols:
\* a word is one symbol; ":", " ", the carriage return, the line feed and each
\* digit are symbols of their own.
MaxLines == 3

Whitespace == {" ", "\r"}
Digits == {"0", "1", "2", "3"}

\* String.prototype.trim
RECURSIVE TrimStart(_)
TrimStart(s) == IF s # <<>> /\ s[1] \in Whitespace THEN TrimStart(Tail(s)) ELSE s

RECURSIVE TrimEnd(_)
TrimEnd(s) ==
  IF s # <<>> /\ s[Len(s)] \in Whitespace THEN TrimEnd(SubSeq(s, 1, Len(s) - 1)) ELSE s

trim(s) == TrimEnd(TrimStart(s))

\* line.match(/^WEBVTT/)
IsHeaderLine(line) == line # <<>> /\ line[1] = "WEBVTT"

\* line.match(/^\d{2}:\d{2}:\d{2}/)
IsTimestampLine(line) ==
  /\ Len(line) >= 8
  /\ \A k \in {1, 2, 4, 5, 7, 8} : line[k] \in Digits
  /\ line[3] = ":" /\ line[6] = ":"

\* line.match(/^\d+$/)
IsSequenceNumber(line) == line # <<>> /\ \A k \in 1..Len(line) : line[k] \in Digits

SkippedLine(line) ==
  IsHeaderLine(line) \/ IsTimestampLine(line) \/ IsSequenceNumber(line) \/ line = <<>>

\* an entry written as a list item
FormatEntry_ListItem(speaker, statements) ==
  <<"-", " ">> \o speaker \o <<":", " ">> \o Join(statements, <<" ">>)

\* `${currentSpeaker}: ${currentStatement.join(" ")}`
FormatEntry(speaker, statements) ==
  speaker \o <<":", " ">> \o Join(statements, <<" ">>)

\* a loop that starts a new entry on every statement
SameSpeaker_Never(speaker, currentSpeaker) == FALSE

\* speaker === currentSpeaker
SameSpeaker(speaker, currentSpeaker) == speaker = currentSpeaker

\* plainText after the push of the accumulated statement, if there is one
Flushed(st) ==
  IF st.currentSpeaker # <<>> /\ st.currentStatement # <<>>
  THEN Append(st.plainText, FormatEntry(st.currentSpeaker, st.currentStatement))
  ELSE st.plainText

\* one iteration of the loop over the lines
TranscriptLine(st, rawLine) ==
  LET line == trim(rawLine) IN
  IF SkippedLine(line) THEN st
  ELSE IF ~Includes(line, <<":">>) THEN st
  ELSE LET parts == Split(line, ":")
           speaker == trim(parts[1])
           statement == trim(Join(Tail(parts), <<":">>))
       IN IF speaker # <<>> /\ statement # <<>>
          THEN IF SameSpeaker(speaker, st.currentSpeaker)
               THEN [st EXCEPT !.currentStatement = Append(@, statement)]
               ELSE [plainText |-> Flushed(st),
                     currentSpeaker |-> speaker,
                     currentStatement |-> <<statement>>]
          ELSE st

RECURSIVE TranscriptLoop(_, _)
TranscriptLoop(st, lines) ==
  IF lines = <<>> THEN st
  ELSE TranscriptLoop(TranscriptLine(st, Head(lines)), Tail(lines))

\* the text convertTranscriptToText writes to the file
convertTranscriptToText(vttContent) ==
  LET lines == Split(vttContent, "\n")
      done == TranscriptLoop([plainText |-> <<>>, currentSpeaker |-> <<>>,
                              currentStatement |-> <<>>], lines)
  IN Join(Flushed(done), <<"\n", "\n">>)

\* the caption of the scenario
ScenarioLines ==
  << <<"0", "0", ":", "0", "0", ":", "0", "1", ".000", " ", "-->", " ",
       "0", "0", ":", "0", "0", ":", "0", "2", ".000">>,
     <<"1">>,
     <<"Alice", ":", " ", "Hello", " ", "there">>,
     <<"Alice", ":", " ", "how", " ", "are", " ", "you">>,
     <<"Bob", ":", " ", "I'm", " ", "fine">> >>

\* lines a caption file may hold
TranscriptLines ==
  { ScenarioLines[1], ScenarioLines[2], ScenarioLines[3], ScenarioLines[4],
    ScenarioLines[5],
    <<>>,
    <<"WEBVTT">>,
    <<"uh", " ", "huh">>,
    <<":", " ", "orphan">>,
    <<"Alice", ":", " ">>,
    <<" ", "Bob", " ", ":", " ", "at", " ", "1", "0", ":", "3", "0", " ", "\r">>,
    <<"1", "2", ":", " ", "ok">> }

TranscriptInit ==
  /\ transcript \in
       { [phase |-> "called", lines |-> ls, vttContent |-> Join(ls, <<"\n">>),
          finalText |-> <<>>, again |-> <<>>] :
           ls \in SeqsUpTo(TranscriptLines, MaxLines) \cup {ScenarioLines} }
  /\ summaryDoc = Unused /\ listing = Unused
  /\ DELETE_AFTER_TRANSFER = FALSE /\ parsesDates = FALSE /\ properties = {}
  /\ RunIdle
  /\ route = Unused /\ chunks = Unused /\ fetch = Unused

TranscriptFrame ==
  UNCHANGED <<config, stores, cloudSummaries, run, pc, zoomToken, calls, users,
              userIdx, items, itemIdx, cur, faults, listing, route, chunks, fetch, summaryDoc>>

\* convertTranscriptToText(vttContent, ...)
ConvertTranscript ==
  /\ transcript.phase = "called"
  /\ transcript' = [transcript EXCEPT
                      !.phase = "converted",
                      !.finalText = convertTranscriptToText(transcript.vttContent)]
  /\ TranscriptFrame

\* convertTranscriptToText on the text it wrote
ConvertAgain ==
  /\ transcript.phase = "converted"
  /\ transcript' = [transcript EXCEPT
                      !.phase = "reconverted",
                      !.again = convertTranscriptToText(transcript.finalText)]
  /\ TranscriptFrame

TranscriptNext == ConvertTranscript \/ ConvertAgain

SpecTranscript == TranscriptInit /\ [][TranscriptNext]_vars

\* the statements of a caption: for each line that is not a header, timestamp,
\* cue number or blank line and that has a non-empty speaker before its first
\* colon and a non-empty statement after it, that speaker and that statement
Utterances(lines) ==
  LET text(i) == trim(lines[i])
      colon(i) == IndexOf(text(i), ":")
      speaker(i) == trim(SubSeq(text(i), 1, colon(i) - 1))
      statement(i) == trim(SubSeq(text(i), colon(i) + 1, Len(text(i))))
      kept == {i \in 1..Len(lines) :
                 /\ ~SkippedLine(text(i))
                 /\ colon(i) > 0
                 /\ speaker(i) # <<>> /\ statement(i) # <<>>}
      nth(k) == CHOOSE i \in kept : Cardinality({j \in kept : j < i}) = k - 1
  IN [k \in 1..Cardinality(kept) |->
        [speaker |-> speaker(nth(k)), statement |-> statement(nth(k))]]

\* one entry per maximal run of consecutive statements of one speaker
MergedEntries(u) ==
  LET starts == {i \in 1..Len(u) : i = 1 \/ u[i].speaker # u[i - 1].speaker}
      nth(k) == CHOOSE i \in starts : Cardinality({j \in starts : j < i}) = k - 1
      last(i) == CHOOSE j \in i..Len(u) :
                   /\ \A m \in i..j : u[m].speaker = u[i].speaker
                   /\ (j = Len(u) \/ u[j + 1].speaker # u[i].speaker)
  IN [k \in 1..Cardinality(starts) |->
        [speaker |-> u[nth(k)].speaker,
         text |-> Join([m \in 1..(last(nth(k)) - nth(k) + 1) |->
                          u[nth(k) + m - 1].statement], <<" ">>)]]

\* the entries, each as "speaker: text", separated by one blank line
EntriesText(entries) ==
  Join([k \in 1..Len(entries) |->
          entries[k].speaker \o <<":", " ">> \o entries[k].text], <<"\n", "\n">>)

ScenarioText ==
  <<"Alice", ":", " ", "Hello", " ", "there", " ", "how", " ", "are", " ", "you",
    "\n", "\n", "Bob", ":", " ", "I'm", " ", "fine">>

\* C14: the text written is the caption's statements merged by runs of one
\* speaker, each entry "speaker: statements joined by one space", entries
\* separated by one blank line; adjacent entries have different speakers; the
\* scenario's caption gives the scenario's text
C14_MergesBySpeaker ==
  transcript.phase # "called" =>
    LET entries == MergedEntries(Utterances(transcript.lines)) IN
    /\ transcript.finalText = EntriesText(entries)
    /\ \A k \in 1..(Len(entries) - 1) : entries[k].speaker # entries[k + 1].speaker
    /\ transcript.lines = ScenarioLines => transcript.finalText = ScenarioText

\* the scenario's caption was converted
C14_Witness ==
  /\ transcript.phase = "converted"
  /\ transcript.lines = ScenarioLines
  /\ transcript.finalText = ScenarioText

\* C15: converting the text a conversion wrote gives that text again
C15_ConversionIsIdempotent ==
  transcript.phase = "reconverted" => transcript.again = transcript.finalText

\* a caption whose conversion merged and dropped lines was converted twice
C15_Witness ==
  /\ transcript.phase = "reconverted"
  /\ transcript.lines = ScenarioLines
  /\ transcript.finalText # transcript.vttContent
  /\ transcript.again = ScenarioText

\* ================================================================== SpecSummaryDoc
\* the text processMeetingSummary writes for a summary detail
MaxSections == 2

\* String.prototype.toUpperCase on one symbol
UpperSym(c) ==
  CASE c = "Next" -> "NEXT"
    [] c = "next" -> "NEXT"
    [] c = "steps" -> "STEPS"
    [] c = "Decisions" -> "DECISIONS"
    [] OTHER -> c

toUpperCase(s) == [i \in 1..Len(s) |-> UpperSym(s[i])]

\* `#####  *AI Generated* Meeting Summary for ${meetingTopic}  #####\n`
\* and `${meetingDate || ""}\n\n`
SummaryTitle(meetingTopic, meetingDate) ==
  <<"#####", "  ", "*AI Generated* Meeting Summary for", " ">> \o meetingTopic
    \o <<"  ", "#####", "\n">> \o meetingDate \o <<"\n", "\n">>

\* if (summaryData.overviewSummary) ...
SummaryOverview(overviewSummary) ==
  IF overviewSummary # <<>>
  THEN <<"== SUMMARY OVERVIEW ==", "\n">> \o overviewSummary \o <<"\n", "\n">>
  ELSE <<>>

FULL_SUMMARY == <<"== FULL SUMMARY ==", "\n", "\n">>

DISCLAIMER ==
  <<"=== DISCLAIMER ===", "\n",
    "AI-generated content may be inaccurate or misleading. Always check for accuracy.",
    "\n">>

\* `-- ${section.label.toUpperCase()} --\n` and `${section.summary}\n\n`
SectionText(section) ==
  <<"--", " ">> \o toUpperCase(section.label) \o <<" ", "--", "\n">>
    \o section.summary \o <<"\n", "\n">>

\* a loop that writes the sections last to first
RECURSIVE SectionsText_Reversed(_)
SectionsText_Reversed(detailedSummary) ==
  IF detailedSummary = <<>> THEN <<>>
  ELSE SectionsText_Reversed(Tail(detailedSummary)) \o SectionText(Head(detailedSummary))

\* summaryData.detailedSummary.forEach(section => ...)
RECURSIVE SectionsText(_)
SectionsText(detailedSummary) ==
  IF detailedSummary = <<>> THEN <<>>
  ELSE SectionText(Head(detailedSummary)) \o SectionsText(Tail(detailedSummary))

\* summaryContent
SummaryContent(meetingTopic, meetingDate, summaryData) ==
  SummaryTitle(meetingTopic, meetingDate)
    \o SummaryOverview(summaryData.overviewSummary)
    \o FULL_SUMMARY
    \o SectionsText(summaryData.detailedSummary)
    \o DISCLAIMER

\* sections a summary detail may hold
SummarySections ==
  { [label |-> <<"Next", " ", "steps">>, summary |-> <<"Send", " ", "notes">>],
    [label |-> <<"next", " ", "steps">>, summary |-> <<"Book", " ", "room">>],
    [label |-> <<"Decisions">>, summary |-> <<"Send", " ", "notes">>],
    [label |-> <<"DECISIONS">>, summary |-> <<>>] }

\* what getMeetingSummaryDetail can return; hasDetails is false for a detail
\* without summary_details (or a null result)
SummaryDetails ==
  LET all == { [overviewSummary |-> o, detailedSummary |-> d, hasDetails |-> h] :
                 o \in {<<>>, <<"Quarterly", " ", "review">>},
                 d \in SeqsUpTo(SummarySections, MaxSections),
                 h \in BOOLEAN }
  IN {sd \in all : sd.hasDetails \/ sd.detailedSummary = <<>>}

SummaryDocInit ==
  /\ summaryDoc \in
       { [phase |-> "called", meetingTopic |-> MeetingTopic(tp),
          meetingDate |-> MeetingDate(tm), summaryData |-> sd, content |-> <<>>] :
           tp \in {<<>>, <<"Operations">>}, tm \in {<<>>, MEETING_TIME},
           sd \in SummaryDetails }
  /\ transcript = Unused /\ listing = Unused
  /\ DELETE_AFTER_TRANSFER = FALSE /\ parsesDates = FALSE /\ properties = {}
  /\ RunIdle
  /\ route = Unused /\ chunks = Unused /\ fetch = Unused

SummaryDocFrame ==
  UNCHANGED <<config, stores, cloudSummaries, run, pc, zoomToken, calls, users,
              userIdx, items, itemIdx, cur, faults, listing, route, chunks, fetch, transcript>>

\* if (!summaryData || !summaryData.detailedSummary) return
NoSummaryData ==
  /\ summaryDoc.phase = "called"
  /\ ~summaryDoc.summaryData.hasDetails
  /\ summaryDoc' = [summaryDoc EXCEPT !.phase = "returned"]
  /\ SummaryDocFrame

\* the summary text is put together
FormatSummary ==
  /\ summaryDoc.phase = "called"
  /\ summaryDoc.summaryData.hasDetails
  /\ summaryDoc' = [summaryDoc EXCEPT
                      !.phase = "written",
                      !.content = SummaryContent(summaryDoc.meetingTopic,
                                                 summaryDoc.meetingDate,
                                                 summaryDoc.summaryData)]
  /\ SummaryDocFrame

SummaryDocNext == NoSummaryData \/ FormatSummary

SpecSummaryDoc == SummaryDocInit /\ [][SummaryDocNext]_vars

\* the positions of text where block occurs
OccurrencesOf(text, block) == {i \in 1..Len(text) : IsPrefixAt(text, block, i)}

\* the lines of text that are section headers: "-- LABEL --"
SectionHeaders(text) ==
  SelectSeq(Split(text, "\n"),
            LAMBDA line : Len(line) >= 4 /\ line[1] = "--" /\ line[Len(line)] = "--")

\* C16: the text is the title, the overview block if and only if the overview
\* is not empty, the full-summary header, then for each section of the detail,
\* in the detail's order and as often as it occurs there, its uppercased label
\* header followed by its body, then the disclaimer
C16_SectionsInInputOrder ==
  summaryDoc.phase = "written" =>
    LET d == summaryDoc.summaryData.detailedSummary
        text == summaryDoc.content
        title == SummaryTitle(summaryDoc.meetingTopic, summaryDoc.meetingDate)
        overview == <<"== SUMMARY OVERVIEW ==", "\n">>
                      \o summaryDoc.summaryData.overviewSummary
        header(k) == <<"--", " ">> \o toUpperCase(d[k].label) \o <<" ", "--">>
        \* where the k-th section starts: after the head and the sections before it
        head == Len(text) - Len(DISCLAIMER)
                  - Len(Join([k \in 1..Len(d) |-> header(k) \o <<"\n">> \o d[k].summary],
                             <<"\n", "\n">>))
                  - (IF d = <<>> THEN 0 ELSE 2)
    IN
    /\ IsPrefixAt(text, title, 1)
    /\ OccurrencesOf(text, <<"== SUMMARY OVERVIEW ==">>) # {}
         <=> summaryDoc.summaryData.overviewSummary # <<>>
    /\ summaryDoc.summaryData.overviewSummary # <<>>
         => IsPrefixAt(text, overview, Len(title) + 1)
    /\ OccurrencesOf(text, FULL_SUMMARY) = {head - Len(FULL_SUMMARY) + 1}
    /\ head - Len(FULL_SUMMARY) + 1 > Len(title)
    /\ IsPrefixAt(text, DISCLAIMER, Len(text) - Len(DISCLAIMER) + 1)
    /\ SectionHeaders(text) = [k \in 1..Len(d) |-> header(k)]
    /\ SubSeq(text, head + 1, Len(text) - Len(DISCLAIMER))
         = Join([k \in 1..Len(d) |-> header(k) \o <<"\n">> \o d[k].summary \o <<"\n">>],
                <<"\n">>) \o (IF d = <<>> THEN <<>> ELSE <<"\n">>)

\* a text with an overview and the same section twice was written
C16_Witness ==
  /\ summaryDoc.phase = "written"
  /\ summaryDoc.summaryData.overviewSummary # <<>>
  /\ Len(summaryDoc.summaryData.detailedSummary) = 2
  /\ summaryDoc.summaryData.detailedSummary[1] = summaryDoc.summaryData.detailedSummary[2]
  /\ Len(SectionHeaders(summaryDoc.content)) = 2

\* ================================================================== window dates
\* the endpoint's from/to parameters are inclusive calendar dates
InWindow(w, date) == w.from <= date /\ date <= w.to

\* C29: for every lookback of at least one day, every calendar date from
\* fromDate to today lies in at least one of the windows the range fetch requested
C29_WindowsCoverRange ==
  (chunks.phase = "returned" /\ chunks.days >= 1) =>
    \A date \in chunks.fromDate..chunks.today :
      \E k \in 1..Len(chunks.requested) : InWindow(chunks.requested[k], date)

\* a 61-day range was fetched in three windows, the last one clamped to one day
C29_Witness ==
  /\ chunks.phase = "returned"
  /\ chunks.days = 61
  /\ Len(chunks.requested) = 3
  /\ chunks.requested[3].from = chunks.fromDate
  /\ chunks.requested[3].to - chunks.requested[3].from = 1

\* C30: the windows of one range fetch are pairwise disjoint: no calendar date
\* lies in two of the windows requested
C30_WindowsDisjoint ==
  chunks.phase = "returned" =>
    \A j, k \in 1..Len(chunks.requested) :
      j # k =>
        \A date \in chunks.fromDate..chunks.today :
          ~(InWindow(chunks.requested[j], date) /\ InWindow(chunks.requested[k], date))

\* ================================================================== throttling
\* C23: between any two page requests of one range fetch, Utilities.sleep runs
\* before the later request is sent
C23_DelayBetweenPageRequests ==
  \A a, b \in 1..Len(fetch.log) :
    (a < b /\ fetch.log[a][1] = "request" /\ fetch.log[b][1] = "request") =>
      \E s \in (a + 1)..(b - 1) : fetch.log[s][1] = "sleep"

\* ================================================================== summaries without detail
\* C27: a summary whose detail is null or has no section list returns from
\* processMeetingSummary with the sheet, the folders and the files unchanged, so
\* the dedup check for it still answers false; a summary gets to the folder and
\* file steps only with a detail that has a section list
C27_NoDetailNoTrace ==
  [][/\ (pc = "sumDetail" /\ pc' = "sum") =>
          /\ UNCHANGED <<sheet, folders, driveFiles, errorRows>>
          /\ ~isSummaryProcessed(cur.meetingTopic, cur.meetingDate, sheet')
     /\ pc' \in {"sumFolder", "sumWrite"} =>
          (~cur'.summaryData.isNull /\ cur'.summaryData.detailedSummary)]_vars

\* the second run asks again for the detail of summary m1, of which the first
\* run (which did log summary m3) left no row and no file
C27_Witness ==
  /\ run = 2
  /\ pc = "sumDetail"
  /\ cur.meetingId = "m1"
  /\ faults = 1
  /\ errorRows = 0
  /\ \A i \in 1..Len(sheet) : ~(sheet[i].kind = "summary" /\ sheet[i].uuid = "m1")
  /\ \A f \in 1..Len(driveFiles) :
       ~(driveFiles[f].kind = "summary" /\ driveFiles[f].uuid = "m1")
  /\ \E i \in 1..Len(sheet) :
       sheet[i].kind = "summary" /\ sheet[i].uuid = "m3" /\ sheet[i].run = 1

\* ================================================================== deletions
SummarySteps == {"sumUser", "sum", "sumDetail", "sumFolder", "sumWrite"}

\* C28: no step of the summaries part of a run requests a source deletion or
\* removes a recording from the source, whatever DELETE_AFTER_TRANSFER is; a
\* deletion is requested only by the deletion step of processRecording, for the
\* recording that processRecording is working on, before any summary is listed
C28_OnlyRecordingsAreDeleted ==
  [][/\ pc \in SummarySteps => UNCHANGED <<deleteCalls, cloudRecordings>>
     /\ deleteCalls' # deleteCalls =>
          /\ pc = "recDelete"
          /\ "summaries" \notin calls'
          /\ items[itemIdx] \in Range(RecordingList)
          /\ cur.meetingId = items[itemIdx].uuid
          /\ deleteCalls' = Append(deleteCalls, items[itemIdx].uuid)]_vars

\* with deletion enabled, the run that deleted recordings m1 and m2 has written
\* the summary file of m1 and is still in its summaries part
C28_Witness ==
  /\ DELETE_AFTER_TRANSFER
  /\ run = 1
  /\ pc = "sum"
  /\ deleteCalls = <<"m1", "m2">>
  /\ \E f \in 1..Len(driveFiles) :
       driveFiles[f].kind = "summary" /\ driveFiles[f].uuid = "m1"
  /\ \E i \in 1..Len(sheet) : sheet[i].kind = "summary" /\ sheet[i].uuid = "m1"

\* ================================================================== ledger rows
\* C24: every step of every run, failed or not, leaves the data rows that the
\* tracking sheet already holds where they are and as they are, and adds at
\* most one row, below the last one
C24_SheetIsAppendOnly ==
  [][/\ Len(sheet') >= Len(sheet)
     /\ Len(sheet') <= Len(sheet) + 1
     /\ SubSeq(sheet', 1, Len(sheet)) = sheet]_vars

\* a second run, after a failure that was written to the error sheet, has added
\* its row below the rows of the first run
C24_Witness ==
  /\ run = 2
  /\ faults = 1
  /\ errorRows = 1
  /\ Len(sheet) >= 3
  /\ sheet[1].run = 1
  /\ sheet[Len(sheet) - 1].run = 1
  /\ sheet[Len(sheet)].run = 2

\* ================================================================== deletion and ledger
\* C26: when a run is over, every recording whose source deletion was requested
\* has a tracking row
C26_DeletedRecordingIsLogged ==
  pc = "idle" =>
    \A k \in 1..Len(deleteCalls) :
      \E i \in 1..Len(sheet) :
        sheet[i].kind = "recording" /\ sheet[i].uuid = deleteCalls[k]

\* ================================================================== SpecReset
\* runs of the connector with resetZoomCredentials invoked at any moment:
\* before a run, between two steps of a run, or after it. The script
\* properties hold a 'zoom_token' entry to begin with.
ResetInit ==
  /\ DELETE_AFTER_TRANSFER = TRUE
  /\ parsesDates = FALSE
  /\ properties = {"zoom_token"}
  /\ RunIdle
  /\ route = Unused /\ chunks = Unused /\ fetch = Unused
  /\ transcript = Unused /\ summaryDoc = Unused /\ listing = Unused

\* a reset that also takes the token from the run in progress
resetZoomCredentials_DropsToken ==
  /\ properties' = properties \ {"zoom_token"}
  /\ zoomToken' = "none"
  /\ UNCHANGED <<DELETE_AFTER_TRANSFER, parsesDates, others, stores, cloudSummaries,
                 run, pc, calls, users, userIdx, items, itemIdx, cur, faults>>

\* PropertiesService.getScriptProperties().deleteProperty('zoom_token')
resetZoomCredentials ==
  /\ properties' = properties \ {"zoom_token"}
  /\ UNCHANGED <<DELETE_AFTER_TRANSFER, parsesDates, others, stores, cloudSummaries,
                 run, pc, zoomToken, calls, users, userIdx, items, itemIdx, cur, faults>>

ResetNext ==
  \/ Next
  \/ resetZoomCredentials

SpecReset == ResetInit /\ [][ResetNext]_vars

\* C25: a reset changes the script properties and nothing of a run; the token
\* of a run is set once, by the acquisition at its start, and from then on every
\* step of the run has that same token
C25_ResetLeavesRunAlone ==
  [][/\ properties' # properties =>
          UNCHANGED <<DELETE_AFTER_TRANSFER, parsesDates, others, stores, cloudSummaries,
                      run, pc, zoomToken, calls, users, userIdx, items, itemIdx, cur,
                      faults>>
     /\ zoomToken' # zoomToken =>
          \/ pc = "idle" /\ pc' = "token" /\ zoomToken' = "none"
          \/ pc = "token" /\ zoomToken = "none"
     /\ pc \notin {"idle", "token"} => (zoomToken = "tok" /\ zoomToken' = zoomToken)]_vars

\* the credentials were reset, and a run is writing a tracking row with the
\* token it acquired at its start
C25_Witness ==
  /\ properties = {}
  /\ pc = "recLog"
  /\ zoomToken = "tok"
  /\ calls = {"users", "recordings", "download", "delete"}

\* ================================================================== SpecItem
\* processRecording / processMeetingSummary on the items of one listing, for
\* any topic and any list of recording files. The listing holds the item
\* once or twice (a summary is listed again for every member, an item dated
\* on a window boundary by both windows).
MaxFiles == 2

\* the files a recording can hold: file_type and file_extension as sent
FileShapes ==
  { [file_type |-> "MP4", file_extension |-> "MP4", download_url |-> TRUE],
    [file_type |-> "TRANSCRIPT", file_extension |-> "VTT", download_url |-> TRUE],
    [file_type |-> "TIMELINE", file_extension |-> "JSON", download_url |-> TRUE],
    [file_type |-> "TIMELINE", file_extension |-> "json", download_url |-> TRUE],
    [file_type |-> "TIMELINE", file_extension |-> "Json", download_url |-> TRUE] }

\* topic and time of an item: no topic and no time, a topic without the prefix,
\* with the prefix in both separator forms, and with the prefix twice
ItemHeads ==
  { [topic |-> <<>>, time |-> <<>>],
    [topic |-> <<"Operations">>, time |-> MEETING_TIME],
    [topic |-> <<"Org", " ", "Operations">>, time |-> MEETING_TIME],
    [topic |-> <<"Org", " ", "|", " ", "Operations">>, time |-> MEETING_TIME],
    [topic |-> <<"Org", " ", "|", " ", "Org", " ", "|", " ", "Operations">>,
     time |-> MEETING_TIME] }

\* the state of a run that has just listed `listed` and is about to process it
ItemListed(listed, step, asked) ==
  /\ sheet = <<>>
  /\ errorRows = 0
  /\ folders = {}
  /\ driveFiles = <<>>
  /\ deleteCalls = <<>>
  /\ run = 1
  /\ pc = step
  /\ zoomToken = "tok"
  /\ calls = asked
  /\ users = <<1>> /\ userIdx = 1
  /\ items = listed /\ itemIdx = 1
  /\ cur = NoLocals
  /\ faults = 0

\* the recordings processed: every head with at most one file, and every list
\* of up to MaxFiles files under one head
RecordingInputs ==
  { [head |-> h, files |-> f] : h \in ItemHeads, f \in SeqsUpTo(FileShapes, 1) }
    \cup { [head |-> [topic |-> <<"Operations">>, time |-> MEETING_TIME], files |-> f] :
             f \in SeqsUpTo(FileShapes, MaxFiles) }

ItemInit ==
  /\ DELETE_AFTER_TRANSFER \in BOOLEAN
  /\ properties = {}
  /\ \E twice \in BOOLEAN :
       \/ \E input \in RecordingInputs :
            LET recording == [uuid |-> "m1", host |-> 1, topic |-> input.head.topic,
                              start_time |-> input.head.time,
                              recording_files |-> input.files]
            IN /\ parsesDates = FALSE
               /\ cloudRecordings = {recording}
               /\ cloudSummaries = {}
               /\ ItemListed(IF twice THEN <<recording, recording>> ELSE <<recording>>,
                             "rec", {"users", "recordings"})
       \/ \E head \in ItemHeads :
            LET meeting == [meeting_uuid |-> "m1", host |-> 1,
                            meeting_topic |-> head.topic,
                            summary_created_time |-> head.time]
            IN /\ parsesDates \in BOOLEAN
               /\ cloudRecordings = {}
               /\ cloudSummaries = {meeting}
               /\ ItemListed(IF twice THEN <<meeting, meeting>> ELSE <<meeting>>,
                             "sum", {"users", "recordings", "summaries"})
  /\ route = Unused /\ chunks = Unused /\ fetch = Unused
  /\ transcript = Unused /\ summaryDoc = Unused /\ listing = Unused

ItemNext ==
  \/ RecordingCheck
  \/ RecordingFolder
  \/ RecordingFile
  \/ RecordingFilesDone
  \/ RecordingDelete
  \/ RecordingLog
  \/ RecordingsDone
  \/ SummaryCheck
  \/ SummaryDetail
  \/ SummaryFolder
  \/ SummaryWrite
  \/ SummariesDone

SpecItem == ItemInit /\ [][ItemNext]_vars

\* positions of the files of a recording whose extension is not json in any
\* letter case
NotJson(files) ==
  {k \in 1..Len(files) : files[k].file_extension \notin {"json", "JSON", "Json"}}

\* C21: no file created in Drive and no entry of the transferred-files list
\* comes from a file whose extension is json in any letter case, a download is
\* requested only when the recording has another file, and a recording with
\* only such files gets no deletion request and stays at the source
C21_TimelinesAreNeverTransferred ==
  "summaries" \notin calls =>
    LET files == items[1].recording_files IN
    /\ \A f \in 1..Len(driveFiles) :
         driveFiles[f].name[Len(driveFiles[f].name)] # "json"
    /\ \A e \in 1..Len(cur.filesTransferred) :
         ~Includes(cur.filesTransferred[e], <<".", "json">>)
    /\ Len(cur.filesTransferred) <= Cardinality(NotJson(files))
    /\ "download" \in calls => NotJson(files) # {}
    /\ NotJson(files) = {} =>
         /\ deleteCalls = <<>>
         /\ "delete" \notin calls
         /\ cloudRecordings = {items[1]}
         /\ \A i \in 1..Len(sheet) : sheet[i].files = StrCell(<<>>)

\* with deletion enabled, a recording whose two files are timelines with the
\* extension written JSON and Json was processed and logged without a failure:
\* nothing was created in Drive and no deletion was requested
C21_Witness ==
  /\ DELETE_AFTER_TRANSFER
  /\ "summaries" \notin calls
  /\ Len(items[1].recording_files) = 2
  /\ {items[1].recording_files[k].file_extension : k \in 1..2} = {"JSON", "Json"}
  /\ Len(sheet) = 1
  /\ sheet[1].files = StrCell(<<>>)
  /\ driveFiles = <<>>
  /\ deleteCalls = <<>>
  /\ faults = 0

\* the topic of an item as sent, or the default, with the configured prefix and
\* the separator after it (" | " or " ") taken from its start once
PrefixRemovedOnce(rawTopic) ==
  LET topic == IF rawTopic = <<>> THEN <<"Unnamed Meeting">> ELSE rawTopic
      p == TOPIC_PREFIX_TO_REMOVE
  IN IF p # <<>> /\ IsPrefixAt(topic, p \o <<" ", "|", " ">>, 1)
     THEN SubSeq(topic, Len(p) + 4, Len(topic))
     ELSE IF p # <<>> /\ IsPrefixAt(topic, p \o <<" ">>, 1)
          THEN SubSeq(topic, Len(p) + 2, Len(topic))
          ELSE topic

\* C22: the topic the dedup lookup is made with, the topic of the locals, the
\* topic that routes and names the folder, the topic in the file names and the
\* topic written to and stored in the tracking row are all the item's topic
\* with the prefix removed once, so every row written for an item has the topic
\* the lookup for that item asks for
C22_OneNormalizedTopic ==
  LET summary == "summaries" \in calls
      rawTopic == IF summary THEN items[1].meeting_topic ELSE items[1].topic
      time == IF summary THEN items[1].summary_created_time ELSE items[1].start_time
      topic == PrefixRemovedOnce(rawTopic)
      named == MeetingDate(time) \o <<"_">> \o topic
      place == [parent |-> getDestinationFolderId(FOLDER_MAPPING, DEFAULT_FOLDER_ID, topic),
                name |-> named]
  IN /\ MeetingTopic(rawTopic) = topic
     /\ cur.meetingId # "" => cur.meetingTopic = topic
     /\ cur.folder.name # <<>> => cur.folder = place
     /\ folders \subseteq {place}
     /\ \A f \in 1..Len(driveFiles) :
          /\ driveFiles[f].folder = place
          /\ IsPrefixAt(driveFiles[f].name, named \o <<"_">>, 1)
     /\ \A i \in 1..Len(sheet) :
          /\ sheet[i].key[1] = topic
          /\ sheet[i].folder = named
          /\ StrictEqStr(sheet[i].topic, MeetingTopic(rawTopic))

\* a recording whose topic carries the prefix twice was listed twice and
\* processed twice: both rows, the folder and the files have the topic with one
\* prefix left
C22_Witness ==
  /\ "summaries" \notin calls
  /\ items[1].topic = <<"Org", " ", "|", " ", "Org", " ", "|", " ", "Operations">>
  /\ Len(sheet) = 2
  /\ sheet[2].topic = StrCell(<<"Org", " ", "|", " ", "Operations">>)
  /\ Len(driveFiles) = 2
  /\ \E folder \in folders :
       /\ folder.parent = "F1"
       /\ folder.name = <<"2024", "-", "03", "-", "15", "_", "Org", " ", "|", " ", "Operations">>

\* ================================================================== SpecTermination
\* every loop of a run, with the steps taken one after the other as the script
\* executes them: the page loop of getAllZoomUsers, a range fetch with its
\* window and page loops and its caller's loops (the actions of SpecFetch), and
\* the runs themselves with the member, recording, summary and file loops (the
\* actions of Spec). A listing endpoint announces a further page at most up to
\* page MaxPages.
ListingInit ==
  /\ listing = [phase |-> "page", pageNumber |-> 1, allUsers |-> <<>>, result |-> <<>>]
  /\ DELETE_AFTER_TRANSFER = FALSE /\ parsesDates = FALSE /\ properties = {}
  /\ RunIdle
  /\ route = Unused /\ chunks = Unused /\ fetch = Unused
  /\ transcript = Unused /\ summaryDoc = Unused

\* one iteration of the while loop of getAllZoomUsers: the request for page
\* pageNumber and what follows from its answer (a further iteration is
\* preceded by Utilities.sleep(500))
ListUsersPage ==
  /\ listing.phase = "page"
  /\ \E response \in PageResponses(listing.pageNumber) :
       LET pageUsers == [k \in 1..response.n |-> <<listing.pageNumber, k>>] IN
       CASE response.status = "ok" /\ response.some /\ response.more ->
              listing' = [listing EXCEPT !.allUsers = @ \o pageUsers,
                                         !.pageNumber = @ + 1]
         [] response.status = "ok" /\ response.some /\ ~response.more ->
              listing' = [listing EXCEPT !.allUsers = @ \o pageUsers,
                                         !.phase = "returned",
                                         !.result = listing.allUsers \o pageUsers]
         [] response.status = "ok" /\ ~response.some ->
              listing' = [listing EXCEPT !.phase = "returned",
                                         !.result = listing.allUsers]
         [] response.status = "error" ->
              listing' = [listing EXCEPT !.phase = "returned",
                                         !.result = listing.allUsers]
         [] response.status = "threw" ->
              \* the catch of getAllZoomUsers: return []
              listing' = [listing EXCEPT !.phase = "returned", !.result = <<>>]
  /\ UNCHANGED <<config, stores, cloudSummaries, run, pc, zoomToken, calls, users,
                 userIdx, items, itemIdx, cur, faults, route, chunks, fetch, texts>>

\* a step of a run
RunStep ==
  /\ listing = Unused
  /\ fetch = Unused
  /\ Next

TerminationInit ==
  \/ Init
  \/ FetchInit
  \/ ListingInit

TerminationNext ==
  \/ RunStep
  \/ FetchNext
  \/ ListUsersPage

\* the script goes on executing: whenever a step is possible, a step is taken
SpecTermination ==
  TerminationInit /\ [][TerminationNext]_vars /\ WF_vars(TerminationNext)

\* no run is in progress, no range fetch or processing of its result is under
\* way, and no member listing is under way
Terminated ==
  /\ pc = "idle"
  /\ fetch.phase \in {"unused", "done"}
  /\ listing.phase \in {"unused", "returned"}

\* C31: whenever a run, a range fetch with the loop over its result, or a
\* member listing is under way, it comes to its end
C31_RunTerminates == ~Terminated ~> Terminated

\* a range fetch over two windows has ended for the last member after a request
\* for page MaxPages and after a request that failed
C31_Witness ==
  /\ fetch.phase = "done"
  /\ fetch.member = Len(MemberList)
  /\ fetch.numChunks = 2
  /\ \E k \in 1..Len(fetch.log) :
       fetch.log[k][1] = "request" /\ fetch.log[k][3] = MaxPages
  /\ \E k \in 1..Len(fetch.log) :
       fetch.log[k][1] = "answer" /\ fetch.log[k][4] = "error"

====
